---------------------------- MODULE Spec2Model ----------------------------
(***************************************************************************)
(* A model of gear (src/gear/__init__.py): the connection pool shared by   *)
(* Client and Worker (BaseClientServer / BaseClient), the per-connection   *)
(* state of Connection (pending-task FIFO, related-jobs map, admin FIFO,   *)
(* echo registry), the Poller and the Reconnector threads, and the caller  *)
(* threads that run Connection.echo, Connection.sendAdminRequest,          *)
(* Client.submitJob and Client.setOption.                                  *)
(*                                                                         *)
(* Every Python statement that touches shared state between two points at  *)
(* which another thread may run is one action.  The Gearman server is a    *)
(* peer that answers the requests written to a socket in the order they    *)
(* were written.                                                           *)
(***************************************************************************)
EXTENDS Integers, Sequences, FiniteSets

\* ------------------------------------------------------------------ bounds
NConns == 2          \* servers that can be added to the pool
NSubmit == 2         \* caller threads in Client.submitJob, one Job each
NPayloads == 2       \* distinct echo payloads
MaxConnect == 2      \* times one connection is connected with success
MaxSpurious == 1     \* ECHO_RES packets the peer sends unasked
MaxFaults == 1       \* failed connects and sends, lost sockets, task timeouts
MaxHandles == 2      \* job handles one server issues

Conns == 1..NConns
Payloads == 1..NPayloads

\* Caller threads, by the operation each one runs.
SubmitThreads == 1..NSubmit
OptionThreads == {NSubmit + 1}
EchoThreads == {NSubmit + 2, NSubmit + 3}
AdminThreads == {NSubmit + 4}
GetJobThreads == {NSubmit + 5, NSubmit + 6}
StopThreads == {NSubmit + 7}
ShutdownThreads == {NSubmit + 8}
MoreGetJobThreads == GetJobThreads \cup {NSubmit + 9}
AbilityThreads == {NSubmit + 10, NSubmit + 12}
WaitThreads == {NSubmit + 11}
AddThreads == {NSubmit + 13, NSubmit + 14, NSubmit + 15}
Threads == SubmitThreads \cup OptionThreads \cup EchoThreads \cup AdminThreads
            \cup MoreGetJobThreads \cup StopThreads \cup ShutdownThreads
            \cup AbilityThreads \cup WaitThreads \cup AddThreads
Jobs == SubmitThreads

None == 0

VARIABLES
    \* BaseClientServer.__init__ / Client.__init__
    active_connections,     \* list of connections
    inactive_connections,   \* list of connections
    connection_index,       \* round-robin cursor
    wake_pipe,              \* unread "1\n" messages in the wake pipe
    client_options,         \* Client.options
    broadcast_lock,         \* the thread that holds BaseClient.broadcast_lock
    pooled,                 \* connections created by addServer
    lost_call,              \* the last _lostConnection call: its connection, the
                            \* jobs it passed to handleDisconnect, and a bit
                            \* that every call flips
    \* Worker.__init__ and BaseClientServer.running
    running,
    waiting_for_jobs,
    job_queue,              \* queue.Queue of WorkerJob (a handle) and None
    job_lock,               \* the thread that holds Worker.job_lock, or None
    functions,              \* Worker.functions: the registered names
    \* Connection._init, one entry per connection
    connected,              \* Connection.connected (a socket is open)
    state,                  \* Connection.state
    pending_tasks,          \* FIFO of Task
    related_jobs,           \* handle -> Job
    conn_options,           \* Connection.options
    admin_requests,         \* FIFO of AdminRequest (the calling thread's id)
    echo_conditions,        \* payload -> Condition (the id of its creator)
    input_buffer,           \* Connection.input_buffer, a sequence of bytes
    need_bytes,             \* Connection.need_bytes
    \* the two directions of the socket of each connection
    wire,                   \* requests written and not yet answered by the peer
    inbox,                  \* responses the peer wrote, not yet read
    srv_handles,            \* number of job handles the peer has issued
    srv_jobs,               \* handles of the jobs submitted over the socket
    socket_bytes,           \* bytes the peer wrote that recv has not returned
    read_call,              \* the readPacket call in progress: its locals
    \* background threads
    polling,                \* the Poller is inside _pollLoop
    conn_dict,              \* the sockets _pollLoop registered: <<connection,
                            \* number of the connect() that opened it>>
    rc_todo,                \* the Reconnector's snapshot still to visit
    rc_conn,                \* the connection the Reconnector has connected
    rc_pc,                  \* where the Reconnector is in _connectLoop
    n_connect,              \* successful connect() calls, per connection
    \* Job objects and caller threads
    job,                    \* per Job: handle, complete, failure, exception, connection
    th,                     \* per thread: its program counter and locals
    notified,               \* Conditions and Events that were signalled
    \* history of the run, read only by the properties
    hist

vars == <<active_connections, inactive_connections, connection_index,
          wake_pipe, client_options, broadcast_lock, pooled, lost_call,
          running, waiting_for_jobs, job_queue, job_lock, functions,
          input_buffer, need_bytes, socket_bytes, read_call,
          connected, state, pending_tasks, related_jobs, conn_options,
          admin_requests, echo_conditions, wire, inbox, srv_handles,
          srv_jobs, polling, conn_dict, rc_todo, rc_conn, rc_pc, n_connect,
          job, th, notified, hist>>

listVars == <<active_connections, inactive_connections, lost_call>>
workerVars == <<running, waiting_for_jobs, job_queue, job_lock, functions>>
codecVars == <<input_buffer, need_bytes, socket_bytes, read_call>>
clientVars == <<connection_index, client_options, broadcast_lock>>
taskVars == <<pending_tasks, related_jobs, conn_options>>
connVars == <<connected, state, taskVars, admin_requests, echo_conditions>>
sockVars == <<wire, inbox, srv_handles, srv_jobs>>
pollVars == <<polling, conn_dict>>
rcVars == <<rc_todo, rc_conn, rc_pc, n_connect>>

\* ----------------------------------------------------------------- helpers
SetOf(s) == {s[i] : i \in 1..Len(s)}

Contains(s, x) == \E i \in 1..Len(s) : s[i] = x

\* list.remove(x): drops the first occurrence
Remove(s, x) ==
    IF ~Contains(s, x) THEN s
    ELSE LET i == CHOOSE k \in 1..Len(s) :
                      s[k] = x /\ \A m \in 1..(k - 1) : s[m] # x
         IN  SubSeq(s, 1, i - 1) \o SubSeq(s, i + 1, Len(s))

\* A packet: its type, its first argument (a handle, an option name, an echo
\* payload), the rest of its payload, and the request it belongs to (the
\* requesting Task or thread; a response carries that of the request the
\* peer answered with it, which no code reads).
Packet(ptype, data, task) ==
    [ptype |-> ptype, data |-> data, arg |-> None, task |-> task]

NoEcho == [d \in Payloads |-> None]

\* The k-th handle that server c issues; no two servers issue the same one.
Handle(c, k) == 10 * c + k

Handles == {Handle(c, k) : c \in Conns, k \in 1..MaxHandles}

NoJobs == [h \in Handles |-> None]

IdleThread ==
    [pc |-> "idle", conn |-> None, data |-> None, result |-> "none",
     task |-> None, n |-> 0, attempted |-> {}, todo |-> <<>>, tasks |-> <<>>,
     success |-> TRUE]

\* An event of the environment that the run may still take: a connect or a
\* send that fails, a socket that closes, a wait that times out.
MayFail == hist.n_faults < MaxFaults

Fault(h) == [h EXCEPT !.n_faults = @ + 1]

Goto(t, pc) == th' = [th EXCEPT ![t].pc = pc]

Return(t, result) == th' = [th EXCEPT ![t].pc = "done", ![t].result = result]

\* -------------------------------------------------------------- Connection
\* threading.Condition.notifyAll as Connection.handleEchoRes calls it: the
\* set of Conditions whose waiters are woken.  Only the thread that holds a
\* Condition's lock may notify it; called without the lock, notifyAll raises
\* RuntimeError and wakes nobody.
NotifyAll(condition, owned) == IF owned THEN {condition} ELSE {}

\* A variant of the test below that never finds a registered waiter.
EchoAlreadyWaitingNever(registry, data) == FALSE

\* Connection.echo, the test made under echo_lock before registering.
EchoAlreadyWaiting(registry, data) == registry[data] # None

\* Connection.echo, the test made after condition.wait(timeout) returned.
EchoResult(registry, data) ==
    IF registry[data] # None THEN "data" ELSE "TimeoutError"

\* ------------------------------------------------------------------- pool
\* BaseClient.addServer, the test made under connections_condition: a
\* connection of the same host and port is in one of the two lists.  Every
\* Connection object has a host and port of its own, so c stands for both.
\* A variant that looks at the active list only:
HostPortSpecifiedActive(c) == Contains(active_connections, c)

HostPortSpecified(c) == Contains(active_connections \o inactive_connections, c)

\* BaseClient.addServer, when the test passes
AddServer(c) ==
    /\ ~HostPortSpecified(c)
    /\ pooled' = pooled \cup {c}
    /\ inactive_connections' = Append(inactive_connections, c)
    /\ UNCHANGED <<codecVars, active_connections, lost_call, wake_pipe, workerVars,
                   clientVars, connVars, sockVars, pollVars, rcVars, job, th,
                   notified, hist>>

\* BaseClient.addServer called by thread t, with both outcomes
AddServerCall(t, c) ==
    /\ th[t].pc = "idle"
    /\ th' = [th EXCEPT ![t].pc = "done", ![t].conn = c,
                        ![t].result = IF HostPortSpecified(c)
                                      THEN "ConfigurationError" ELSE "None"]
    /\ pooled' = IF HostPortSpecified(c) THEN pooled ELSE pooled \cup {c}
    /\ inactive_connections' =
            IF HostPortSpecified(c) THEN inactive_connections
            ELSE Append(inactive_connections, c)
    /\ UNCHANGED <<codecVars, active_connections, lost_call, wake_pipe,
                   workerVars, clientVars, connVars, sockVars, pollVars,
                   rcVars, job, notified, hist>>

\* A variant of the list below that leaves the active list as it is.
LostActiveKeeps(c) == active_connections

\* BaseClientServer._lostConnection: the two lists afterwards
LostActive(c) == Remove(active_connections, c)

\* A variant of the list below without the membership test.
LostInactiveAppends(c) == Append(inactive_connections, c)

\* A variant of the list below that leaves the inactive list as it is.
LostInactiveKeeps(c) == inactive_connections

LostInactive(c) ==
    IF Contains(inactive_connections, c) THEN inactive_connections
    ELSE Append(inactive_connections, c)

\* conn.related_jobs.values()
RelatedJobs(c) == {related_jobs[c][h] : h \in Handles} \ {None}

\* "for job in jobs: self.handleDisconnect(job)" runs after the condition is
\* released.  jobs is a list in Python 2 and a view of the connection's
\* dictionary in Python 3.  The Poller is the only thread that deletes from
\* the dictionary, so the loop of its own calls (own) sees what the call saw;
\* the loop of another thread's call is the step HandleDisconnectJobs.
\* hooked holds the jobs of the call that handleDisconnect was invoked for.
LostCall(c, own) ==
    [conn |-> c, jobs |-> RelatedJobs(c),
     hooked |-> IF own THEN RelatedJobs(c) ELSE {},
     done |-> own \/ RelatedJobs(c) = {},
     flip |-> ~lost_call.flip]

LostConnection(c, own) ==
    /\ lost_call.done
    /\ active_connections' = LostActive(c)
    /\ inactive_connections' = LostInactive(c)
    /\ lost_call' = LostCall(c, own)

\* a call of _lostConnection made only if the condition lost holds
LostIf(lost, c, own) ==
    IF lost THEN LostConnection(c, own) ELSE UNCHANGED listVars

\* The loop over jobs of a call made outside the Poller: a list has the jobs
\* of the call, a view has those of them still in the dictionary.
HandleDisconnectJobs ==
    /\ ~lost_call.done
    /\ \E view \in BOOLEAN :
        lost_call' = [lost_call EXCEPT
            !.done = TRUE,
            !.hooked = IF view THEN lost_call.jobs \cap RelatedJobs(lost_call.conn)
                       ELSE lost_call.jobs]
    /\ UNCHANGED <<codecVars, active_connections, inactive_connections, wake_pipe,
                   pooled, workerVars, clientVars, connVars, sockVars, pollVars,
                   rcVars, job, th, notified, hist>>

\* ------------------------------------------------------------ Reconnector
\* BaseClientServer._connectLoop: the snapshot of the inactive list
RcSnapshot ==
    /\ running
    /\ rc_pc = "idle"
    /\ rc_todo = <<>>
    /\ inactive_connections # <<>>
    /\ rc_todo' = inactive_connections
    /\ UNCHANGED <<codecVars, listVars, wake_pipe, pooled, workerVars, clientVars, connVars, sockVars,
                   pollVars, rc_conn, rc_pc, n_connect, job, th, notified,
                   hist>>

\* A field of the connections after Connection._init ran on those of cs
Reset(field, cs, value) ==
    [c \in Conns |-> IF c \in cs THEN value ELSE field[c]]

\* A variant of _init that leaves the admin requests in place.
ConnInitKeepsRequests(cs) ==
    /\ state' = Reset(state, cs, "INIT")
    /\ pending_tasks' = Reset(pending_tasks, cs, <<>>)
    /\ related_jobs' = Reset(related_jobs, cs, NoJobs)
    /\ conn_options' = Reset(conn_options, cs, {})
    /\ admin_requests' = admin_requests
    /\ echo_conditions' = Reset(echo_conditions, cs, NoEcho)

\* Connection._init on the connections of cs, but for conn and connected
\* (which connect assigns again): input_buffer and need_bytes are not among
\* the fields it assigns.
ConnInit(cs) ==
    /\ state' = Reset(state, cs, "INIT")
    /\ pending_tasks' = Reset(pending_tasks, cs, <<>>)
    /\ related_jobs' = Reset(related_jobs, cs, NoJobs)
    /\ conn_options' = Reset(conn_options, cs, {})
    /\ admin_requests' = Reset(admin_requests, cs, <<>>)
    /\ echo_conditions' = Reset(echo_conditions, cs, NoEcho)

\* conn.reconnect(): disconnect() resets the connection with _init and drops
\* the socket, connect() opens a new one or raises ConnectionError.  Only a
\* connect() that succeeds assigns input_buffer and need_bytes.
RcReconnect(ok) ==
    /\ rc_pc = "idle"
    /\ rc_todo # <<>>
    /\ IF ok THEN n_connect[Head(rc_todo)] < MaxConnect ELSE MayFail
    /\ lost_call.done \/ lost_call.conn # Head(rc_todo)
    /\ hist' = [(IF ok THEN hist ELSE Fault(hist)) EXCEPT
                    !.option_reqs[Head(rc_todo)] = {},
                    !.client_id[Head(rc_todo)] = FALSE,
                    !.abilities[Head(rc_todo)] = {}]
    /\ LET c == Head(rc_todo) IN
        /\ rc_todo' = Tail(rc_todo)
        /\ n_connect' = [n_connect EXCEPT ![c] = IF ok THEN @ + 1 ELSE @]
        /\ connected' = [connected EXCEPT ![c] = ok]
        /\ ConnInit({c})
        /\ wire' = [wire EXCEPT ![c] = <<>>]
        /\ inbox' = [inbox EXCEPT ![c] = <<>>]
        /\ srv_jobs' = [srv_jobs EXCEPT ![c] = {}]
        /\ socket_bytes' = [socket_bytes EXCEPT ![c] = <<>>]
        /\ input_buffer' = [input_buffer EXCEPT ![c] = IF ok THEN <<>> ELSE @]
        /\ need_bytes' = [need_bytes EXCEPT ![c] = IF ok THEN FALSE ELSE @]
        /\ rc_conn' = IF ok THEN c ELSE None
        /\ rc_pc' = IF ok THEN "onconnect" ELSE "idle"
    /\ UNCHANGED <<read_call, listVars, wake_pipe, pooled, workerVars, clientVars, srv_handles,
                   pollVars, job, th, notified>>

\* Client._onConnect: under broadcast_lock, _setOptionConnection for every
\* option of the client (an OptionReqTask is queued, OPTION_REQ is sent).
ReplayTask(name) == 2000 + name

\* "for name in self.options": the names in the order of the iteration (a
\* set has no order of its own; the ascending one is taken)
RECURSIVE OptionNames(_)
OptionNames(names) ==
    IF names = {} THEN <<>>
    ELSE LET n == CHOOSE x \in names : \A y \in names : x <= y
         IN  <<n>> \o OptionNames(names \ {n})

\* The tasks _setOptionConnection appends for the names, and the packets it
\* sends for those of them whose send does not fail (bad: the failing ones).
RECURSIVE ReplayTasks(_)
ReplayTasks(names) ==
    IF names = <<>> THEN <<>>
    ELSE <<ReplayTask(Head(names))>> \o ReplayTasks(Tail(names))

RECURSIVE ReplayPackets(_, _)
ReplayPackets(names, bad) ==
    IF names = <<>> THEN <<>>
    ELSE (IF Head(names) \in bad THEN <<>>
          ELSE <<Packet("OPTION_REQ", Head(names), ReplayTask(Head(names)))>>)
         \o ReplayPackets(Tail(names), bad)

\* A failed send is caught in _setOptionConnection after sendPacket called
\* _lostConnection, and _onConnect returns normally.
RcOnConnect ==
    /\ rc_pc = "onconnect"
    /\ broadcast_lock = None
    /\ \E bad \in SUBSET client_options :
        /\ bad = {} \/ MayFail
        /\ LET c == rc_conn
               names == OptionNames(client_options)
           IN  /\ pending_tasks' = [pending_tasks EXCEPT ![c] =
                                        @ \o ReplayTasks(names)]
               /\ wire' = [wire EXCEPT ![c] = @ \o ReplayPackets(names, bad)]
               /\ LostIf(bad # {}, c, FALSE)
               /\ hist' = [(IF bad = {} THEN hist ELSE Fault(hist)) EXCEPT
                                !.option_reqs[c] = @ \cup (client_options \ bad)]
    /\ rc_pc' = "promote"
    /\ UNCHANGED <<codecVars, wake_pipe, pooled, workerVars, clientVars, connected, state,
                   related_jobs, conn_options, admin_requests, echo_conditions,
                   inbox, srv_handles, srv_jobs, pollVars, rc_todo, rc_conn,
                   n_connect, job, th, notified>>

\* The wake pipe after os.close of both of its ends
Closed == -1

\* A variant of the write below that writes nothing.
WakeWriteNone(n) == n

\* os.write(self.wake_write, b'1\n'), on the count of unread messages
WakeWrite(n) == n + 1

\* _connectLoop, under connections_condition: the connection moves from the
\* inactive to the active list, the condition is notified and the wake pipe
\* is written.
RcPromote ==
    /\ rc_pc = "promote"
    /\ inactive_connections' = Remove(inactive_connections, rc_conn)
    /\ active_connections' = Append(active_connections, rc_conn)
    /\ wake_pipe' = WakeWrite(wake_pipe)
    /\ rc_conn' = None
    /\ rc_pc' = "idle"
    /\ UNCHANGED <<codecVars, lost_call, pooled, workerVars, clientVars, connVars,
                   sockVars, pollVars, rc_todo, n_connect, job, th, notified,
                   hist>>

\* ----------------------------------------------------------------- Poller
\* The socket connection c has open: conn.conn, known to poll by its fileno()
Socket(c) == <<c, n_connect[c]>>

\* BaseClientServer._doPollLoop / _pollLoop: with a non-empty active list the
\* Poller registers the socket of every active connection and the wake pipe.
PollerStart ==
    /\ running
    /\ ~polling
    /\ active_connections # <<>>
    /\ polling' = TRUE
    /\ conn_dict' = {Socket(c) : c \in SetOf(active_connections)}
    /\ UNCHANGED <<codecVars, listVars, wake_pipe, pooled, workerVars, clientVars, connVars, sockVars,
                   rcVars, job, th, notified, hist>>

\* _pollLoop, "Woken by pipe": one message is drained and _pollLoop returns.
PollerWake ==
    /\ polling
    /\ read_call.conn = None
    /\ read_call.pending = None
    /\ wake_pipe > 0
    /\ wake_pipe' = wake_pipe - 1
    /\ polling' = FALSE
    /\ UNCHANGED <<codecVars, listVars, pooled, workerVars, clientVars, connVars,
                   sockVars, conn_dict, rcVars, job, th, notified, hist>>

\* _pollLoop: readPacket returned None (the peer closed the socket) or poll
\* reported an error event: the connection is marked lost, _pollLoop returns.
PollerLost(c) ==
    /\ polling
    /\ Socket(c) \in conn_dict
    /\ connected[c]
    /\ MayFail
    /\ LostConnection(c, TRUE)
    /\ polling' = FALSE
    /\ hist' = Fault(hist)
    /\ UNCHANGED <<codecVars, wake_pipe, pooled, workerVars, clientVars, connVars, sockVars, conn_dict,
                   rcVars, job, th, notified>>

\* _pollLoop has a packet (or an admin response) of connection c to dispatch
CanRead(c, ptype) ==
    /\ polling
    /\ Socket(c) \in conn_dict
    /\ connected[c]
    /\ inbox[c] # <<>>
    /\ Head(inbox[c]).ptype = ptype

\* BaseClient.handleEchoRes -> Connection.handleEchoRes.  The Condition is
\* notified without being acquired: see NotifyAll.  The RuntimeError leaves
\* _pollLoop and is logged by _doPollLoop.
HandleEchoRes(c) ==
    /\ CanRead(c, "ECHO_RES")
    /\ LET data == Head(inbox[c]).data
           condition == echo_conditions[c][data]
           owned == FALSE
       IN  /\ inbox' = [inbox EXCEPT ![c] = Tail(@)]
           /\ IF condition # None
              THEN /\ echo_conditions' =
                          [echo_conditions EXCEPT ![c][data] = None]
                   /\ notified' = notified \cup NotifyAll(condition, owned)
                   /\ polling' = owned
                   /\ hist' = [hist EXCEPT !.answered =
                          IF th[condition].pc = "wait" /\ Head(inbox[c]).task = condition
                          THEN @ \cup {condition}
                          ELSE @]
              ELSE UNCHANGED <<codecVars, echo_conditions, notified, polling, hist>>
    /\ UNCHANGED <<codecVars, listVars, wake_pipe, pooled, workerVars, clientVars, connected, state, taskVars,
                   admin_requests, wire, srv_handles, srv_jobs, conn_dict, rcVars,
                   job,
                   th>>

\* Connection.readPacket for an admin response (_getAdminRequest pops the
\* head of the admin FIFO), then BaseClientServer.handleAdminRequest.
HandleAdminRequest(c) ==
    /\ CanRead(c, "ADMIN_RES")
    /\ IF admin_requests[c] # <<>>
       THEN /\ admin_requests' = [admin_requests EXCEPT ![c] = Tail(@)]
            /\ notified' = notified \cup {Head(admin_requests[c])}
            /\ inbox' = [inbox EXCEPT ![c] = Tail(@)]
            /\ UNCHANGED polling
       ELSE \* pop(0) of an empty list: IndexError, the bytes stay buffered
            /\ polling' = FALSE
            /\ UNCHANGED <<codecVars, admin_requests, notified, inbox>>
    /\ UNCHANGED <<codecVars, listVars, wake_pipe, pooled, workerVars, clientVars, connected, state, taskVars,
                   echo_conditions, wire, srv_handles, srv_jobs, conn_dict, rcVars,
                   job,
                   th, hist>>

\* ------------------------------------------------------------------- peer
\* The server answers the oldest unanswered request of a socket.
ServerEchoRes(c) ==
    /\ connected[c]
    /\ wire[c] # <<>>
    /\ Head(wire[c]).ptype = "ECHO_REQ"
    /\ wire' = [wire EXCEPT ![c] = Tail(@)]
    /\ inbox' = [inbox EXCEPT ![c] =
                    Append(@, Packet("ECHO_RES", Head(wire[c]).data,
                                     Head(wire[c]).task))]
    /\ hist' = [hist EXCEPT !.res_sent = @ \cup {<<c, Head(wire[c]).data>>}]
    /\ UNCHANGED <<codecVars, listVars, wake_pipe, pooled, workerVars, clientVars, connVars,
                   srv_handles, srv_jobs, pollVars, rcVars, job, th, notified>>

\* An ECHO_RES nobody asked for (a duplicate, or an unknown payload).  It
\* arrives when the client has read all that came before it: the client
\* cannot tell a packet that waits in the socket buffer from one that
\* arrives later.
ServerSpuriousEchoRes(c, d) ==
    /\ connected[c]
    /\ inbox[c] = <<>>
    /\ hist.n_spurious < MaxSpurious
    /\ inbox' = [inbox EXCEPT ![c] = Append(@, Packet("ECHO_RES", d, None))]
    /\ hist' = [hist EXCEPT !.n_spurious = @ + 1,
                            !.res_sent = @ \cup {<<c, d>>}]
    /\ UNCHANGED <<codecVars, listVars, wake_pipe, pooled, workerVars, clientVars, connVars, wire,
                   srv_handles, srv_jobs, pollVars, rcVars, job, th, notified>>

ServerAdminRes(c) ==
    /\ connected[c]
    /\ wire[c] # <<>>
    /\ Head(wire[c]).ptype = "ADMIN_REQ"
    /\ wire' = [wire EXCEPT ![c] = Tail(@)]
    /\ inbox' = [inbox EXCEPT ![c] = Append(@, Packet("ADMIN_RES", None, None))]
    /\ UNCHANGED <<codecVars, listVars, wake_pipe, pooled, workerVars, clientVars, connVars,
                   srv_handles, srv_jobs, pollVars, rcVars, job, th, notified, hist>>

\* -------------------------------------------------------- Connection.echo
\* echo(data, timeout) on an active connection, up to the release of
\* echo_lock: InvalidDataError if a waiter is registered for the payload,
\* else a new Condition is registered.
EchoRegister(t, c, d) ==
    /\ th[t].pc = "idle"
    /\ Contains(active_connections, c)
    /\ IF EchoAlreadyWaiting(echo_conditions[c], d)
       THEN /\ th' = [th EXCEPT ![t].pc = "done", ![t].conn = c,
                                     ![t].data = d,
                                     ![t].result = "InvalidDataError"]
            /\ UNCHANGED echo_conditions
       ELSE /\ th' = [th EXCEPT ![t].pc = "send", ![t].conn = c,
                                     ![t].data = d]
            /\ echo_conditions' = [echo_conditions EXCEPT ![c][d] = t]
    /\ UNCHANGED <<codecVars, listVars, wake_pipe, pooled, workerVars, clientVars, connected, state, taskVars,
                   admin_requests, sockVars, pollVars, rcVars, job, notified,
                   hist>>

\* sendEchoReq: ECHO_REQ is written to the socket, or the write raises and
\* the exception leaves echo.
EchoSend(t, ok) ==
    /\ th[t].pc = "send"
    /\ ok \/ MayFail
    /\ hist' = IF ok THEN hist ELSE Fault(hist)
    /\ LET c == th[t].conn IN
       IF ok /\ connected[c]
       THEN /\ wire' = [wire EXCEPT ![c] =
                            Append(@, Packet("ECHO_REQ", th[t].data, t))]
            /\ Goto(t, "wait")
       ELSE /\ Return(t, "SendError")
            /\ UNCHANGED wire
    /\ UNCHANGED <<codecVars, listVars, wake_pipe, pooled, workerVars, clientVars, connVars, inbox,
                   srv_handles, srv_jobs, pollVars, rcVars, job, notified>>

\* condition.wait(timeout) returns, notified or timed out, and echo tests
\* whether the payload is in the registry.
EchoWake(t) ==
    /\ th[t].pc = "wait"
    /\ Return(t, EchoResult(echo_conditions[th[t].conn], th[t].data))
    /\ hist' = [hist EXCEPT !.timed_out =
                    IF t \in notified THEN @ ELSE @ \cup {<<t, th[t].conn>>}]
    /\ UNCHANGED <<codecVars, listVars, wake_pipe, pooled, workerVars, clientVars, connVars, sockVars,
                   pollVars, rcVars, job, notified>>

\* --------------------------------------------- Connection.sendAdminRequest
AdminAppend(t, c) ==
    /\ th[t].pc = "idle"
    /\ Contains(active_connections, c)
    /\ admin_requests' = [admin_requests EXCEPT ![c] = Append(@, t)]
    /\ th' = [th EXCEPT ![t].pc = "send", ![t].conn = c]
    /\ UNCHANGED <<codecVars, listVars, wake_pipe, pooled, workerVars, clientVars, connected, state, taskVars,
                   echo_conditions, sockVars, pollVars, rcVars, job, notified,
                   hist>>

\* sendRaw(request.getCommand())
AdminSend(t, ok) ==
    /\ th[t].pc = "send"
    /\ ok \/ MayFail
    /\ hist' = IF ok THEN hist ELSE Fault(hist)
    /\ LET c == th[t].conn IN
       IF ok /\ connected[c]
       THEN /\ wire' = [wire EXCEPT ![c] =
                            Append(@, Packet("ADMIN_REQ", None, t))]
            /\ Goto(t, "wait")
       ELSE /\ Return(t, "SendError")
            /\ UNCHANGED wire
    /\ UNCHANGED <<codecVars, listVars, wake_pipe, pooled, workerVars, clientVars, connVars, inbox,
                   srv_handles, srv_jobs, pollVars, rcVars, job, notified>>

\* request.waitForResponse(timeout) returns: TimeoutError unless the event
\* was set.
AdminWake(t) ==
    /\ th[t].pc = "wait"
    /\ Return(t, IF t \in notified THEN "ok" ELSE "TimeoutError")
    /\ hist' = [hist EXCEPT !.timed_out =
                    IF t \in notified THEN @ ELSE @ \cup {<<t, th[t].conn>>}]
    /\ UNCHANGED <<codecVars, listVars, wake_pipe, pooled, workerVars, clientVars, connVars, sockVars,
                   pollVars, rcVars, job, notified>>

\* ------------------------------------------------------------------- Init
\* What a submitJob call found when it returned with success (history).
NotReturned == [done |-> FALSE, holders |-> {}, handle |-> None,
                complete |-> FALSE]

\* BaseJob.__init__ / Job.__init__ (data: the number of chunks in job.data)
NewJob == [handle |-> None, connection |-> None, data |-> 0,
           exception |-> None, complete |-> FALSE, failure |-> FALSE,
           warning |-> FALSE, numerator |-> None, known |-> FALSE]

\* No readPacket call is in progress; the locals of the method otherwise.
NoCall ==
    [conn |-> None, pending |-> None, raw_bytes |-> <<>>, need_bytes |-> FALSE,
     admin |-> "None", admin_request |-> [id |-> 0, kind |-> "None"],
     code |-> <<>>, ptype |-> 0, datalen |-> 0]

Init ==
    /\ active_connections = <<>>
    /\ inactive_connections = <<>>
    /\ connection_index = -1
    /\ wake_pipe = 0
    /\ client_options = {}
    /\ broadcast_lock = None
    /\ pooled = {}
    /\ lost_call = [conn |-> None, jobs |-> {}, hooked |-> {}, done |-> TRUE,
                    flip |-> FALSE]
    /\ running = TRUE
    /\ waiting_for_jobs = 0
    /\ job_queue = <<>>
    /\ job_lock = None
    /\ functions = {}
    /\ input_buffer = [c \in Conns |-> <<>>]
    /\ need_bytes = [c \in Conns |-> FALSE]
    /\ socket_bytes = [c \in Conns |-> <<>>]
    /\ read_call = NoCall
    /\ connected = [c \in Conns |-> FALSE]
    /\ state = [c \in Conns |-> "INIT"]
    /\ pending_tasks = [c \in Conns |-> <<>>]
    /\ related_jobs = [c \in Conns |-> NoJobs]
    /\ conn_options = [c \in Conns |-> {}]
    /\ admin_requests = [c \in Conns |-> <<>>]
    /\ echo_conditions = [c \in Conns |-> NoEcho]
    /\ wire = [c \in Conns |-> <<>>]
    /\ inbox = [c \in Conns |-> <<>>]
    /\ srv_handles = [c \in Conns |-> 0]
    /\ srv_jobs = [c \in Conns |-> {}]
    /\ polling = FALSE
    /\ conn_dict = {}
    /\ rc_todo = <<>>
    /\ rc_conn = None
    /\ rc_pc = "idle"
    /\ n_connect = [c \in Conns |-> 0]
    /\ job = [j \in Jobs |-> NewJob]
    /\ th = [t \in Threads |-> IdleThread]
    /\ notified = {}
    /\ hist = [answered |-> {}, res_sent |-> {}, n_spurious |-> 0,
               timed_out |-> {}, misrouted |-> {}, n_work |-> 0,
               n_faults |-> 0,
               option_reqs |-> [c \in Conns |-> {}],
               client_id |-> [c \in Conns |-> FALSE],
               accepted |-> {}, errored |-> {},
               selected |-> <<>>,
               sent |-> <<>>, read |-> <<>>, n_requests |-> 0,
               unblocked |-> {}, n_unknown |-> 0,
               unanswered |-> <<>>,
               abilities |-> [c \in Conns |-> {}],
               snapshot |-> [t \in AbilityThreads |-> <<>>],
               attempts |-> [t \in AbilityThreads |-> <<>>],
               terminals |-> [j \in Jobs |-> 0],
               returned |-> [t \in SubmitThreads |-> NotReturned]]

\* ------------------------------------------------------------ Background
Reconnector ==
    \/ RcSnapshot
    \/ \E ok \in BOOLEAN : RcReconnect(ok)
    \/ RcOnConnect
    \/ RcPromote

\* --------------------------------------- the connection-level operations
\* One server; threads in Connection.echo and Connection.sendAdminRequest.
ConnsE == {1}

NextConn ==
    \/ \E c \in ConnsE : AddServer(c)
    \/ Reconnector
    \/ PollerStart
    \/ PollerWake
    \/ \E c \in ConnsE : PollerLost(c)
    \/ \E c \in ConnsE : HandleEchoRes(c)
    \/ \E c \in ConnsE : HandleAdminRequest(c)
    \/ \E c \in ConnsE : ServerEchoRes(c)
    \/ \E c \in ConnsE, d \in Payloads : ServerSpuriousEchoRes(c, d)
    \/ \E c \in ConnsE : ServerAdminRes(c)
    \/ \E t \in EchoThreads, c \in ConnsE, d \in Payloads : EchoRegister(t, c, d)
    \/ \E t \in EchoThreads, ok \in BOOLEAN : EchoSend(t, ok)
    \/ \E t \in EchoThreads : EchoWake(t)
    \/ \E t \in AdminThreads, c \in ConnsE : AdminAppend(t, c)
    \/ \E t \in AdminThreads, ok \in BOOLEAN : AdminSend(t, ok)
    \/ \E t \in AdminThreads : AdminWake(t)

SpecConn == Init /\ [][NextConn]_vars

\* One server; threads in Connection.echo only.
NextEcho ==
    \/ \E c \in ConnsE : AddServer(c)
    \/ Reconnector
    \/ PollerStart
    \/ PollerWake
    \/ \E c \in ConnsE : PollerLost(c)
    \/ \E c \in ConnsE : HandleEchoRes(c)
    \/ \E c \in ConnsE : ServerEchoRes(c)
    \/ \E c \in ConnsE, d \in Payloads : ServerSpuriousEchoRes(c, d)
    \/ \E t \in EchoThreads, c \in ConnsE, d \in Payloads : EchoRegister(t, c, d)
    \/ \E t \in EchoThreads, ok \in BOOLEAN : EchoSend(t, ok)
    \/ \E t \in EchoThreads : EchoWake(t)

SpecEcho == Init /\ [][NextEcho]_vars

\* ======================================================== Connection.echo
\* hist.answered: the threads whose registry entry handleEchoRes removed
\* while they were blocked in condition.wait.  hist.res_sent: the
\* (connection, payload) pairs for which the peer wrote an ECHO_RES.

\* C7: echo(data, timeout) returns data when an ECHO_RES with that payload
\* was handled while the caller was waiting, and raises TimeoutError only
\* when no such ECHO_RES was handled.
C7_EchoReturnsDataWhenAnswered ==
    \A t \in EchoThreads :
        th[t].pc = "done" =>
            /\ t \in hist.answered => th[t].result = "data"
            /\ th[t].result = "TimeoutError" => t \notin hist.answered

\* C8: if no ECHO_RES arrives for echo(data, timeout), the call fails with
\* TimeoutError and the caller's waiter is no longer in the echo registry.
C8_EchoTimeoutCleansRegistry ==
    \A t \in EchoThreads :
        (/\ th[t].pc = "done"
         /\ th[t].result \in {"data", "TimeoutError"}
         /\ <<th[t].conn, th[t].data>> \notin hist.res_sent)
        => /\ th[t].result = "TimeoutError"
           /\ echo_conditions[th[t].conn][th[t].data] # t

\* C9: an ECHO_RES whose payload has a registered waiter releases that
\* waiter: the thread whose entry was removed has been notified.
C9_EchoResReleasesWaiter ==
    \A t \in EchoThreads : t \in hist.answered => t \in notified

\* C10: an echo call made while a waiter for the same payload is registered
\* on the connection raises InvalidDataError, writes no ECHO_REQ and leaves
\* the registry as it was; any other call registers the caller as the one
\* waiter of its payload.
C10_EchoDuplicateRefused ==
    [][\A t \in EchoThreads :
         (th[t].pc = "idle" /\ th'[t].pc # "idle") =>
            LET c == th'[t].conn
                d == th'[t].data
            IN  IF echo_conditions[c][d] # None
                THEN /\ th'[t].pc = "done"
                     /\ th'[t].result = "InvalidDataError"
                     /\ echo_conditions' = echo_conditions
                     /\ wire' = wire
                ELSE /\ th'[t].pc = "send"
                     /\ echo_conditions' =
                            [echo_conditions EXCEPT ![c][d] = t]]_vars

\* Two echo calls with the same payload on one connection, the second one
\* refused while the first one is still registered and waiting.
C10_Witness ==
    \E t \in EchoThreads, u \in EchoThreads :
        /\ t # u
        /\ th[t].result = "InvalidDataError"
        /\ th[u].pc = "wait"
        /\ th[u].conn = th[t].conn
        /\ th[u].data = th[t].data
        /\ echo_conditions[th[u].conn][th[u].data] = u

\* ================================================================ Client
MaxAttempts == 2     \* iterations of the loop of one submitJob call
MaxWork == 2         \* WORK_* packets the servers send in one run
NOptions == 1        \* distinct option names

Options == 1..NOptions

\* Task objects.  SubmitJobTask(job) of the n-th iteration of thread t's
\* submitJob (its job is Job t); OptionReqTask of setOption for connection c;
\* OptionReqTask of _onConnect for an option name.
SubmitTask(t, n) == 100 * t + n

OptionTask(c) == 1000 + c

\* A variant of the test below that takes every task for a SubmitJobTask.
IsSubmitJobTaskAlways(task) == task > 0

\* isinstance(task, SubmitJobTask)
IsSubmitJobTask(task) == task < 1000

TaskJob(task) == task \div 100

\* ---------------------------------------------------------- the servers
\* JOB_CREATED for the oldest unanswered request, a SUBMIT_JOB, with a new
\* handle.
ServerJobCreated(c) ==
    /\ connected[c]
    /\ wire[c] # <<>>
    /\ Head(wire[c]).ptype = "SUBMIT_JOB"
    /\ srv_handles[c] < MaxHandles
    /\ LET h == Handle(c, srv_handles[c] + 1) IN
        /\ srv_handles' = [srv_handles EXCEPT ![c] = @ + 1]
        /\ srv_jobs' = [srv_jobs EXCEPT ![c] = @ \cup {h}]
        /\ inbox' = [inbox EXCEPT ![c] =
                        Append(@, Packet("JOB_CREATED", h, Head(wire[c]).task))]
    /\ wire' = [wire EXCEPT ![c] = Tail(@)]
    /\ UNCHANGED <<codecVars, listVars, wake_pipe, pooled, workerVars, clientVars, connVars,
                   pollVars, rcVars, job, th, notified, hist>>

ServerOptionRes(c) ==
    /\ connected[c]
    /\ wire[c] # <<>>
    /\ Head(wire[c]).ptype = "OPTION_REQ"
    /\ inbox' = [inbox EXCEPT ![c] =
            Append(@, Packet("OPTION_RES", Head(wire[c]).data, Head(wire[c]).task))]
    /\ wire' = [wire EXCEPT ![c] = Tail(@)]
    /\ UNCHANGED <<codecVars, listVars, wake_pipe, pooled, workerVars, clientVars, connVars,
                   srv_handles, srv_jobs, pollVars, rcVars, job, th, notified,
                   hist>>

\* ERROR for the oldest unanswered request.
ServerError(c) ==
    /\ connected[c]
    /\ wire[c] # <<>>
    /\ Head(wire[c]).ptype \in {"SUBMIT_JOB", "OPTION_REQ"}
    /\ inbox' = [inbox EXCEPT ![c] =
                    Append(@, Packet("ERROR", None, Head(wire[c]).task))]
    /\ wire' = [wire EXCEPT ![c] = Tail(@)]
    /\ UNCHANGED <<codecVars, listVars, wake_pipe, pooled, workerVars, clientVars, connVars,
                   srv_handles, srv_jobs, pollVars, rcVars, job, th, notified,
                   hist>>

\* WORK_COMPLETE, WORK_FAIL or WORK_EXCEPTION for a job submitted over the
\* socket; arg is the payload after the handle (None: empty).
ServerWork(c, h, ptype, arg) ==
    /\ connected[c]
    /\ h \in srv_jobs[c]
    /\ hist.n_work < MaxWork
    /\ ptype = "WORK_FAIL" => arg = None
    /\ ptype = "WORK_EXCEPTION" => arg # None
    /\ inbox' = [inbox EXCEPT ![c] =
                    Append(@, [Packet(ptype, h, None) EXCEPT !.arg = arg])]
    /\ hist' = [hist EXCEPT !.n_work = @ + 1]
    /\ UNCHANGED <<codecVars, listVars, wake_pipe, pooled, workerVars, clientVars, connVars, wire,
                   srv_handles, srv_jobs, pollVars, rcVars, job, th, notified>>

\* ------------------------------------------------------ packet handlers
\* Client.handleJobCreated
HandleJobCreated(c) ==
    /\ CanRead(c, "JOB_CREATED")
    /\ LET p == Head(inbox[c])
           empty == pending_tasks[c] = <<>>       \* pop(0): IndexError
           task == Head(pending_tasks[c])
           wrong == ~empty /\ ~IsSubmitJobTask(task)  \* GearmanError
           j == TaskJob(task)
       IN  /\ inbox' = [inbox EXCEPT ![c] = Tail(@)]
           /\ pending_tasks' = [pending_tasks EXCEPT ![c] =
                                    IF empty THEN @ ELSE Tail(@)]
           /\ LostIf(wrong, c, TRUE)
           /\ polling' = ~(empty \/ wrong)
           /\ job' = IF empty \/ wrong THEN job
                     ELSE [job EXCEPT ![j].handle = p.data]
           /\ related_jobs' = IF empty \/ wrong THEN related_jobs
                              ELSE [related_jobs EXCEPT ![c][p.data] = j]
           /\ notified' = IF empty \/ wrong THEN notified
                          ELSE notified \cup {task}
           /\ hist' = IF empty \/ task = p.task THEN hist
                      ELSE [hist EXCEPT !.misrouted = @ \cup {<<task, p.task>>}]
    /\ UNCHANGED <<codecVars, wake_pipe, pooled, workerVars, clientVars, connected, state, conn_options,
                   admin_requests, echo_conditions, wire, srv_handles,
                   srv_jobs, conn_dict, rcVars, th>>

\* Client.handleOptionRes
HandleOptionRes(c) ==
    /\ CanRead(c, "OPTION_RES")
    /\ LET p == Head(inbox[c])
           empty == pending_tasks[c] = <<>>
           task == Head(pending_tasks[c])
           wrong == ~empty /\ IsSubmitJobTask(task)
       IN  /\ inbox' = [inbox EXCEPT ![c] = Tail(@)]
           /\ pending_tasks' = [pending_tasks EXCEPT ![c] =
                                    IF empty THEN @ ELSE Tail(@)]
           /\ LostIf(wrong, c, TRUE)
           /\ polling' = ~(empty \/ wrong)
           /\ conn_options' = IF empty \/ wrong THEN conn_options
                              ELSE [conn_options EXCEPT ![c] = @ \cup {p.data}]
           /\ notified' = IF empty \/ wrong THEN notified
                          ELSE notified \cup {task}
           /\ hist' = IF empty THEN hist
                      ELSE [hist EXCEPT
                        !.misrouted = IF task = p.task THEN @
                                      ELSE @ \cup {<<task, p.task>>},
                        !.accepted = IF wrong THEN @
                            ELSE @ \cup {<<task, n>> :
                                            n \in conn_options[c] \cup {p.data}}]
    /\ UNCHANGED <<codecVars, wake_pipe, pooled, workerVars, clientVars, connected, state, related_jobs,
                   admin_requests, echo_conditions, wire, srv_handles,
                   srv_jobs, conn_dict, rcVars, job, th>>

\* BaseClient.handleError: the exception of pop(0) is caught in the handler,
\* which then marks the connection lost.
HandleError(c) ==
    /\ CanRead(c, "ERROR")
    /\ LET p == Head(inbox[c])
           empty == pending_tasks[c] = <<>>
           task == Head(pending_tasks[c])
       IN  /\ inbox' = [inbox EXCEPT ![c] = Tail(@)]
           /\ pending_tasks' = [pending_tasks EXCEPT ![c] =
                                    IF empty THEN @ ELSE Tail(@)]
           /\ LostIf(empty, c, TRUE)
           /\ notified' = IF empty THEN notified ELSE notified \cup {task}
           /\ hist' = IF empty THEN hist
                      ELSE [hist EXCEPT
                        !.misrouted = IF task = p.task THEN @
                                      ELSE @ \cup {<<task, p.task>>},
                        !.accepted = @ \cup {<<task, n>> : n \in conn_options[c]},
                        !.errored = IF task = p.task THEN @ \cup {task} ELSE @,
                        !.unblocked = @ \cup {task}]
    /\ UNCHANGED <<codecVars, wake_pipe, pooled, workerVars, clientVars, connected, state, related_jobs,
                   conn_options, admin_requests, echo_conditions, wire,
                   srv_handles, srv_jobs, pollVars, rcVars, job, th>>

\* A variant of the lookup below that finds a Job by the handle it carries.
GetJobByHandle(c, p) ==
    IF \E j \in Jobs : job[j].handle = p.data
    THEN CHOOSE j \in Jobs : job[j].handle = p.data
    ELSE None

\* Packet.getJob: the Job of the packet's handle, None for UnknownJobError
GetJob(c, p) == related_jobs[c][p.data]

\* The fields a terminal handler assigns to the Job before it deletes the
\* related-jobs entry.
WorkCompleteJob(j, p) ==
    [j EXCEPT !.data = IF p.arg # None THEN @ + 1 ELSE @,
              !.complete = TRUE, !.failure = FALSE]

WorkFailJob(j, p) == [j EXCEPT !.complete = TRUE, !.failure = TRUE]

WorkExceptionJob(j, p) ==
    [j EXCEPT !.exception = p.arg, !.complete = TRUE, !.failure = TRUE]

\* The fields the handlers of WORK_DATA, WORK_WARNING, WORK_STATUS and
\* STATUS_RES assign to the Job.
WorkDataJob(j, p) == [j EXCEPT !.data = IF p.arg # None THEN @ + 1 ELSE @]

WorkWarningJob(j, p) ==
    [j EXCEPT !.data = IF p.arg # None THEN @ + 1 ELSE @, !.warning = TRUE]

WorkStatusJob(j, p) == [j EXCEPT !.numerator = p.arg]

StatusResJob(j, p) == [j EXCEPT !.known = p.arg = 1, !.numerator = p.arg]

\* "del packet.connection.related_jobs[job.handle]": KeyError if the job's
\* current handle is not a key of this connection's map.
DelRaises(c, handle) == related_jobs[c][handle] = None

\* The part common to handleWorkComplete, handleWorkFail, handleWorkException
\* handlePacket's dispatch on the packet type
Update(ptype, j, p) ==
    IF ptype = "WORK_COMPLETE" THEN WorkCompleteJob(j, p)
    ELSE IF ptype = "WORK_FAIL" THEN WorkFailJob(j, p)
    ELSE WorkExceptionJob(j, p)

HandleTerminal(c, ptype) ==
    /\ CanRead(c, ptype)
    /\ LET p == Head(inbox[c])
           j == GetJob(c, p)
       IN  /\ inbox' = [inbox EXCEPT ![c] = Tail(@)]
           /\ IF j = None
              THEN /\ polling' = FALSE
                   /\ hist' = [hist EXCEPT !.n_unknown = @ + 1]
                   /\ UNCHANGED <<job, related_jobs>>
              ELSE /\ job' = [job EXCEPT ![j] = Update(ptype, @, p)]
                   /\ hist' = [hist EXCEPT !.terminals[j] = @ + 1]
                   /\ IF DelRaises(c, job[j].handle)
                      THEN /\ polling' = FALSE
                           /\ UNCHANGED related_jobs
                      ELSE /\ related_jobs' =
                                [related_jobs EXCEPT ![c][job[j].handle] = None]
                           /\ UNCHANGED polling
    /\ UNCHANGED <<codecVars, listVars, wake_pipe, pooled, workerVars, clientVars, connected, state,
                   pending_tasks, conn_options, admin_requests,
                   echo_conditions, wire, srv_handles, srv_jobs, conn_dict,
                   rcVars, th, notified>>

\* handleWorkData, handleWorkWarning, handleWorkStatus, handleStatusRes:
\* packet.getJob() raises UnknownJobError, which leaves _pollLoop, or the
\* Job is updated; the related-jobs map is not touched.
Progress(ptype, j, p) ==
    IF ptype = "WORK_DATA" THEN WorkDataJob(j, p)
    ELSE IF ptype = "WORK_WARNING" THEN WorkWarningJob(j, p)
    ELSE IF ptype = "WORK_STATUS" THEN WorkStatusJob(j, p)
    ELSE StatusResJob(j, p)

HandleProgress(c, ptype) ==
    /\ CanRead(c, ptype)
    /\ LET p == Head(inbox[c])
           j == GetJob(c, p)
       IN  /\ inbox' = [inbox EXCEPT ![c] = Tail(@)]
           /\ IF j = None
              THEN /\ polling' = FALSE
                   /\ hist' = [hist EXCEPT !.n_unknown = @ + 1]
                   /\ UNCHANGED job
              ELSE /\ job' = [job EXCEPT ![j] = Progress(ptype, @, p)]
                   /\ UNCHANGED <<polling, hist>>
    /\ UNCHANGED <<codecVars, listVars, wake_pipe, pooled, workerVars,
                   clientVars, connVars, wire, srv_handles, srv_jobs,
                   conn_dict, rcVars, th, notified>>

HandleWorkData(c) == HandleProgress(c, "WORK_DATA")

HandleWorkWarning(c) == HandleProgress(c, "WORK_WARNING")

HandleWorkStatus(c) == HandleProgress(c, "WORK_STATUS")

HandleStatusRes(c) == HandleProgress(c, "STATUS_RES")

HandleWorkComplete(c) == HandleTerminal(c, "WORK_COMPLETE")

HandleWorkFail(c) == HandleTerminal(c, "WORK_FAIL")

HandleWorkException(c) == HandleTerminal(c, "WORK_EXCEPTION")

\* ------------------------------------------------------ Client.submitJob
\* The Job of thread t is Job t.  "while True: if attempted_connections ==
\* set(self.active_connections): break", then raise GearmanError.
SubmitLoop(t) ==
    /\ th[t].pc \in {"idle", "loop"}
    /\ IF th[t].attempted = SetOf(active_connections)
       THEN Return(t, "GearmanError")
       ELSE /\ th[t].n < MaxAttempts
            /\ Goto(t, "get")
    /\ UNCHANGED <<codecVars, listVars, wake_pipe, pooled, workerVars, clientVars, connVars, sockVars,
                   pollVars, rcVars, job, notified, hist>>

\* A variant of the cursor below that stays where it is unless it is past
\* the end of the list.
NextIndexFirst == IF connection_index + 1 >= Len(active_connections) THEN 0
                  ELSE IF connection_index < 0 THEN 0 ELSE connection_index

\* BaseClient.getConnection: the cursor after the call
NextIndex == IF connection_index + 1 >= Len(active_connections) THEN 0
             ELSE connection_index + 1

SubmitGetConnection(t) ==
    /\ th[t].pc = "get"
    /\ IF active_connections = <<>>
       THEN /\ Return(t, "NoConnectedServersError")
            /\ UNCHANGED connection_index
       ELSE /\ connection_index' = NextIndex
            /\ th' = [th EXCEPT ![t].pc = "append",
                                ![t].conn = active_connections[NextIndex + 1]]
    /\ UNCHANGED <<codecVars, listVars, wake_pipe, pooled, workerVars, client_options, broadcast_lock,
                   connVars, sockVars, pollVars, rcVars, job, notified, hist>>

\* task = SubmitJobTask(job); conn.pending_tasks.append(task);
\* attempted_connections.add(conn)
SubmitAppend(t) ==
    /\ th[t].pc = "append"
    /\ LET task == SubmitTask(t, th[t].n + 1) IN
        /\ pending_tasks' = [pending_tasks EXCEPT ![th[t].conn] = Append(@, task)]
        /\ th' = [th EXCEPT ![t].pc = "send", ![t].task = task, ![t].n = @ + 1,
                            ![t].attempted = @ \cup {th[t].conn}]
    /\ UNCHANGED <<codecVars, listVars, wake_pipe, pooled, workerVars, clientVars, connected, state,
                   related_jobs, conn_options, admin_requests, echo_conditions,
                   sockVars, pollVars, rcVars, job, notified, hist>>

\* self.sendPacket(packet, conn): on an exception BaseClient.sendPacket marks
\* the connection lost and submitJob continues with the next iteration.
SubmitSend(t, ok) ==
    /\ th[t].pc = "send"
    /\ ok \/ MayFail
    /\ hist' = IF ok THEN hist ELSE Fault(hist)
    /\ LET c == th[t].conn IN
       IF ok /\ connected[c]
       THEN /\ wire' = [wire EXCEPT ![c] =
                            Append(@, Packet("SUBMIT_JOB", None, th[t].task))]
            /\ Goto(t, "wait")
            /\ UNCHANGED listVars
       ELSE /\ LostConnection(c, FALSE)
            /\ Goto(t, "loop")
            /\ UNCHANGED wire
    /\ UNCHANGED <<codecVars, wake_pipe, pooled, workerVars, clientVars, connVars, inbox, srv_handles,
                   srv_jobs, pollVars, rcVars, job, notified>>

\* The connections whose related-jobs map has the job under its handle
Holders(j) ==
    {c \in Conns : job[j].handle # None /\ related_jobs[c][job[j].handle] = j}

\* complete = task.wait(timeout) returns.  Not complete: the connection is
\* marked lost, next iteration.  Complete without a handle: next iteration.
\* Otherwise job.connection = conn and submitJob returns.
SubmitWait(t) ==
    /\ th[t].pc = "wait"
    /\ LET c == th[t].conn
           complete == th[t].task \in notified
       IN  IF ~complete
           THEN /\ MayFail
                /\ LostConnection(c, FALSE)
                /\ Goto(t, "loop")
                /\ hist' = [Fault(hist) EXCEPT
                                !.timed_out = @ \cup {<<th[t].task, c>>}]
                /\ UNCHANGED job
           ELSE IF job[t].handle = None
           THEN /\ Goto(t, "loop")
                /\ UNCHANGED <<codecVars, listVars, job, hist>>
           ELSE /\ job' = [job EXCEPT ![t].connection = c]
                /\ Return(t, "ok")
                /\ hist' = [hist EXCEPT !.returned[t] =
                                [done |-> TRUE, holders |-> Holders(t),
                                 handle |-> job[t].handle,
                                 complete |-> job[t].complete]]
                /\ UNCHANGED listVars
    /\ UNCHANGED <<codecVars, wake_pipe, pooled, workerVars, clientVars, connVars, sockVars, pollVars,
                   rcVars, notified>>

\* ------------------------------------------------------ Client.setOption
\* broadcast_lock is acquired, the name is added to Client.options and the
\* active list is copied.
OptBegin(t, name) ==
    /\ th[t].pc = "idle"
    /\ broadcast_lock = None
    /\ client_options' = client_options \cup {name}
    /\ broadcast_lock' = IF active_connections = <<>> THEN None ELSE t
    /\ th' = [th EXCEPT ![t].pc = IF active_connections = <<>> THEN "owait"
                                  ELSE "oappend",
                        ![t].data = name, ![t].todo = active_connections]
    /\ UNCHANGED <<codecVars, listVars, wake_pipe, pooled, workerVars, connection_index, connVars,
                   sockVars, pollVars, rcVars, job, notified, hist>>

\* _setOptionConnection: conn.pending_tasks.append(task)
OptAppend(t) ==
    /\ th[t].pc = "oappend"
    /\ LET c == Head(th[t].todo) IN
        pending_tasks' = [pending_tasks EXCEPT ![c] = Append(@, OptionTask(c))]
    /\ Goto(t, "osend")
    /\ UNCHANGED <<codecVars, listVars, wake_pipe, pooled, workerVars, clientVars, connected, state,
                   related_jobs, conn_options, admin_requests, echo_conditions,
                   sockVars, pollVars, rcVars, job, notified, hist>>

\* _setOptionConnection: self.sendPacket(packet, conn); after the last
\* connection broadcast_lock is released.
OptSend(t, ok) ==
    /\ th[t].pc = "osend"
    /\ ok \/ MayFail
    /\ hist' = IF ok /\ connected[Head(th[t].todo)]
               THEN [hist EXCEPT !.option_reqs[Head(th[t].todo)] =
                                        @ \cup {th[t].data}]
               ELSE IF ok THEN hist ELSE Fault(hist)
    /\ LET c == Head(th[t].todo)
           sent == ok /\ connected[c]
           last == Tail(th[t].todo) = <<>>
       IN  /\ wire' = [wire EXCEPT ![c] =
                IF sent THEN Append(@, Packet("OPTION_REQ", th[t].data,
                                              OptionTask(c)))
                ELSE @]
           /\ LostIf(~sent, c, FALSE)
           /\ th' = [th EXCEPT ![t].pc = IF last THEN "owait" ELSE "oappend",
                               ![t].todo = Tail(@),
                               ![t].tasks = IF sent THEN Append(@, OptionTask(c))
                                            ELSE @,
                               ![t].attempted = IF sent THEN @ \cup {OptionTask(c)}
                                                ELSE @]
           /\ broadcast_lock' = IF last THEN None ELSE broadcast_lock
    /\ UNCHANGED <<codecVars, wake_pipe, pooled, workerVars, connection_index, client_options,
                   connVars, inbox, srv_handles, srv_jobs, pollVars, rcVars,
                   job, notified>>

\* "for task in tasks.keys(): complete = task.wait(timeout)"
OptWait(t) ==
    /\ th[t].pc = "owait"
    /\ th[t].tasks # <<>>
    /\ Head(th[t].tasks) \in notified \/ MayFail
    /\ LET task == Head(th[t].tasks)
           c == task - 1000
           complete == task \in notified
       IN  /\ LostIf(~complete, c, FALSE)
           /\ th' = [th EXCEPT ![t].tasks = Tail(@),
                               ![t].success =
                                    IF complete /\ th[t].data \notin conn_options[c]
                                    THEN FALSE ELSE @]
           /\ hist' = IF complete THEN hist
                      ELSE [Fault(hist) EXCEPT
                                !.timed_out = @ \cup {<<task, c>>}]
    /\ UNCHANGED <<codecVars, wake_pipe, pooled, workerVars, clientVars, connVars, sockVars, pollVars,
                   rcVars, job, notified>>

OptReturn(t) ==
    /\ th[t].pc = "owait"
    /\ th[t].tasks = <<>>
    /\ Return(t, IF th[t].success THEN "True" ELSE "False")
    /\ UNCHANGED <<codecVars, listVars, wake_pipe, pooled, workerVars, clientVars, connVars, sockVars,
                   pollVars, rcVars, job, notified, hist>>

\* ----------------------------------------------------------- the Client
\* One submitJob caller and two servers.
NextSubmit ==
    \/ \E c \in Conns : AddServer(c)
    \/ Reconnector
    \/ PollerStart
    \/ PollerWake
    \/ \E c \in Conns : PollerLost(c)
    \/ \E c \in Conns : HandleJobCreated(c)
    \/ \E c \in Conns : HandleError(c)
    \/ \E c \in Conns : HandleWorkComplete(c)
    \/ \E c \in Conns : HandleWorkFail(c)
    \/ \E c \in Conns : HandleWorkException(c)
    \/ \E c \in Conns : ServerJobCreated(c)
    \/ \E c \in Conns : ServerError(c)
    \/ \E c \in Conns, h \in Handles, arg \in {None, 1},
          ptype \in {"WORK_COMPLETE", "WORK_FAIL", "WORK_EXCEPTION"} :
            ServerWork(c, h, ptype, arg)
    \/ SubmitLoop(1)
    \/ SubmitGetConnection(1)
    \/ SubmitAppend(1)
    \/ \E ok \in BOOLEAN : SubmitSend(1, ok)
    \/ SubmitWait(1)

SpecSubmit == Init /\ [][NextSubmit]_vars

\* Two concurrent submitJob callers and one server.
NextRace ==
    \/ \E c \in ConnsE : AddServer(c)
    \/ Reconnector
    \/ PollerStart
    \/ PollerWake
    \/ \E c \in ConnsE : PollerLost(c)
    \/ \E c \in ConnsE : HandleJobCreated(c)
    \/ \E c \in ConnsE : HandleError(c)
    \/ \E c \in ConnsE : ServerJobCreated(c)
    \/ \E c \in ConnsE : ServerError(c)
    \/ \E t \in SubmitThreads : SubmitLoop(t)
    \/ \E t \in SubmitThreads : SubmitGetConnection(t)
    \/ \E t \in SubmitThreads : SubmitAppend(t)
    \/ \E t \in SubmitThreads, ok \in BOOLEAN : SubmitSend(t, ok)
    \/ \E t \in SubmitThreads : SubmitWait(t)
    \/ HandleDisconnectJobs

SpecRace == Init /\ [][NextRace]_vars

\* One submitJob caller, one setOption caller and one server.
NextOption ==
    \/ \E c \in ConnsE : AddServer(c)
    \/ Reconnector
    \/ PollerStart
    \/ PollerWake
    \/ \E c \in ConnsE : PollerLost(c)
    \/ \E c \in ConnsE : HandleJobCreated(c)
    \/ \E c \in ConnsE : HandleOptionRes(c)
    \/ \E c \in ConnsE : HandleError(c)
    \/ \E c \in ConnsE : ServerJobCreated(c)
    \/ \E c \in ConnsE : ServerOptionRes(c)
    \/ \E c \in ConnsE : ServerError(c)
    \/ SubmitLoop(1)
    \/ SubmitGetConnection(1)
    \/ SubmitAppend(1)
    \/ \E ok \in BOOLEAN : SubmitSend(1, ok)
    \/ SubmitWait(1)
    \/ \E t \in OptionThreads, name \in Options : OptBegin(t, name)
    \/ \E t \in OptionThreads : OptAppend(t)
    \/ \E t \in OptionThreads, ok \in BOOLEAN : OptSend(t, ok)
    \/ \E t \in OptionThreads : OptWait(t)
    \/ \E t \in OptionThreads : OptReturn(t)
    \/ HandleDisconnectJobs

SpecOption == Init /\ [][NextOption]_vars

\* ===================================================== Client.submitJob
\* The tasks of the requests written to the socket of connection c whose
\* response was not read yet, oldest first: those the peer has answered, then
\* those it has not.
IsAnswer(p) == p.task # None

TasksOf(packets) == [i \in 1..Len(packets) |-> packets[i].task]

Outstanding(c) == TasksOf(SelectSeq(inbox[c], IsAnswer)) \o TasksOf(wire[c])

\* C1: on one connection the pending-task FIFO holds the tasks in the order
\* in which their request packets were written to the socket: of two
\* requests awaiting their response, the task of the one written first is
\* ahead of the other's in the FIFO.
C1_FifoOrderIsWireOrder ==
    \A c \in Conns :
        \A i \in 1..Len(Outstanding(c)), k \in 1..Len(Outstanding(c)) :
            \A m \in 1..Len(pending_tasks[c]), n \in 1..Len(pending_tasks[c]) :
                (/\ i < k
                 /\ pending_tasks[c][m] = Outstanding(c)[i]
                 /\ pending_tasks[c][n] = Outstanding(c)[k]) => m < n

\* C2: when submitJob returns with success (and no terminal packet was
\* handled before that), the job's handle is set and exactly one connection
\* has the job under that handle in its related-jobs map.
C2_ReturnedJobIsTracked ==
    \A t \in SubmitThreads :
        (hist.returned[t].done /\ ~hist.returned[t].complete) =>
            /\ hist.returned[t].handle # None
            /\ Cardinality(hist.returned[t].holders) = 1

\* C3: at most one WORK_COMPLETE, WORK_FAIL or WORK_EXCEPTION packet takes
\* effect on a job; a later terminal packet changes none of its fields.
C3_OneTerminalEvent == \A j \in Jobs : hist.terminals[j] <= 1

\* C4: for every Job, failure implies complete, and complete implies that
\* the handle is set and that the related-jobs map of the job's connection
\* does not hold the job.
C4_CompleteJobIsUntracked ==
    \A j \in Jobs :
        /\ job[j].failure => job[j].complete
        /\ job[j].complete =>
            /\ job[j].handle # None
            /\ job[j].connection # None =>
                  \A h \in Handles : related_jobs[job[j].connection][h] # j

\* C5: a submitJob call that does not return a submitted job fails with
\* GearmanError.
C5_SubmitFailsWithGearmanError ==
    \A t \in SubmitThreads :
        (th[t].pc = "done" /\ th[t].result # "ok") =>
            th[t].result = "GearmanError"

\* ============================================== timeouts of correlated calls
\* The waiter w (a task, an admin request, the Condition of an echo call) is
\* registered on connection c.
Registered(w, c) ==
    \/ Contains(pending_tasks[c], w)
    \/ Contains(admin_requests[c], w)
    \/ \E d \in Payloads : echo_conditions[c][d] = w

\* C6: after a correlated blocking operation timed out, its waiter entry is
\* not registered on a connection that is in the active list: the timeout
\* marked the connection lost, and only a reconnect, which clears the
\* entries, makes it active again.
C6_TimeoutMarksConnectionLost ==
    \A e \in hist.timed_out :
        ~(Contains(active_connections, e[2]) /\ Registered(e[1], e[2]))

\* ================================================================== Worker
\* The unlocked sections of a Worker are single steps: each one below runs
\* with job_lock free and leaves it free, stopWaitingForJobs holds it over
\* several steps.

\* the threads inside job_queue.get(), the blocking call of getJob
BlockedThreads == {t \in GetJobThreads : th[t].pc = "blocked"}

\* queue.Queue.get: the item taken and the queue left behind
QueueItem(q) == Head(q)

\* A variant of the queue below whose get leaves the item in the queue.
QueueRestKeeps(q) == q

QueueRest(q) == Tail(q)

GrabJobUniq == Packet("GRAB_JOB_UNIQ", None, None)

PreSleep == Packet("PRE_SLEEP", None, None)

\* Worker._updateStateMachines over the copy conns of the active list, with
\* connection states st and w waiting threads.  bad is the connection whose
\* sendPacket raises (None: no send raises).  The result has the states set,
\* the connections GRAB_JOB_UNIQ was sent to and the connection whose send
\* raised: BaseClient.sendPacket marks it lost and the exception ends the
\* loop.
RECURSIVE UpdateFrom(_, _, _, _)
UpdateFrom(conns, st, w, bad) ==
    IF conns = <<>> THEN [state |-> st, sent |-> {}, failed |-> None]
    ELSE LET c == Head(conns) IN
         IF st[c] = "IDLE" /\ w > 0
         THEN IF c = bad \/ ~connected[c]
              THEN [state |-> st, sent |-> {}, failed |-> c]
              ELSE LET r == UpdateFrom(Tail(conns),
                                       [st EXCEPT ![c] = "GRAB_WAIT"], w, bad)
                   IN  [r EXCEPT !.sent = @ \cup {c}]
         ELSE IF st[c] # "IDLE" /\ w < 1
         THEN UpdateFrom(Tail(conns), [st EXCEPT ![c] = "IDLE"], w, bad)
         ELSE UpdateFrom(Tail(conns), st, w, bad)

UpdateRaises(st, w, bad) ==
    UpdateFrom(active_connections, st, w, bad).failed # None

\* _updateStateMachines called with states st and w waiting threads; own
\* tells that the Poller is the caller.
UpdateStateMachines(st, w, bad, own) ==
    LET r == UpdateFrom(active_connections, st, w, bad) IN
    /\ bad = None \/ (MayFail /\ r.failed = bad)
    /\ hist' = IF bad = None THEN hist ELSE Fault(hist)
    /\ state' = r.state
    /\ wire' = [c \in Conns |->
                    IF c \in r.sent THEN Append(wire[c], GrabJobUniq)
                    ELSE wire[c]]
    /\ LostIf(r.failed # None, r.failed, own)

\* Worker._onConnect: SET_CLIENT_ID and a CAN_DO or CAN_DO_TIMEOUT for every
\* registered function are sent with conn.sendPacket (the peer then knows
\* the client id and these abilities), then the state becomes IDLE.  An exception leaves the
\* connection in the inactive list ("continue" in _connectLoop).
WkOnConnect(ok) ==
    /\ rc_pc = "onconnect"
    /\ broadcast_lock = None
    /\ ok \/ MayFail
    /\ hist' = IF ok THEN [hist EXCEPT !.client_id[rc_conn] = TRUE,
                                       !.abilities[rc_conn] = functions]
               ELSE Fault(hist)
    /\ state' = [state EXCEPT ![rc_conn] = IF ok THEN "IDLE" ELSE @]
    /\ rc_pc' = IF ok THEN "promote" ELSE "idle"
    /\ rc_conn' = IF ok THEN rc_conn ELSE None
    /\ UNCHANGED <<codecVars, listVars, wake_pipe, pooled, workerVars, clientVars,
                   connected, taskVars, admin_requests, echo_conditions,
                   sockVars, pollVars, rc_todo, n_connect, job, th, notified>>

\* _connectLoop, under connections_condition, in a Worker: as RcPromote,
\* then _onActiveConnection is called.
WkPromote ==
    /\ rc_pc = "promote"
    /\ inactive_connections' = Remove(inactive_connections, rc_conn)
    /\ active_connections' = Append(active_connections, rc_conn)
    /\ wake_pipe' = WakeWrite(wake_pipe)
    /\ rc_pc' = "onactive"
    /\ UNCHANGED <<codecVars, lost_call, pooled, workerVars, clientVars, connVars,
                   sockVars, pollVars, rc_todo, rc_conn, n_connect, job, th,
                   notified, hist>>

\* Worker._onActiveConnection.  An exception of _updateStateMachines is
\* logged by _connectLoop.
WkOnActive(bad) ==
    /\ rc_pc = "onactive"
    /\ job_lock = None
    /\ IF waiting_for_jobs > 0
       THEN UpdateStateMachines(state, waiting_for_jobs, bad, FALSE)
       ELSE bad = None /\ UNCHANGED <<codecVars, listVars, state, wire, hist>>
    /\ rc_pc' = "idle"
    /\ rc_conn' = None
    /\ UNCHANGED <<codecVars, wake_pipe, pooled, workerVars, clientVars, connected,
                   taskVars, admin_requests, echo_conditions, inbox,
                   srv_handles, srv_jobs, pollVars, rc_todo, n_connect, job,
                   th, notified>>

\* ----------------------------------------------------------- Worker.getJob
\* The section under job_lock.  Not running: InterruptedError.  Otherwise
\* waiting_for_jobs grows and job_queue.get(False) is tried; "if not job"
\* holds for an empty queue and for a None taken from it, and then
\* _updateStateMachines runs and the thread goes on to job_queue.get().
\* The thread's n counts the items the call has taken from the queue.
GetJobEnter(t, bad) ==
    /\ th[t].pc = "idle"
    /\ job_lock = None
    /\ IF ~running
       THEN /\ bad = None
            /\ Return(t, "InterruptedError")
            /\ UNCHANGED <<functions, codecVars, listVars, state, wire, hist, waiting_for_jobs,
                           job_queue>>
       ELSE LET w == waiting_for_jobs + 1
                item == IF job_queue = <<>> THEN None ELSE QueueItem(job_queue)
                taken == IF job_queue = <<>> THEN 0 ELSE 1
            IN  /\ waiting_for_jobs' = w
                /\ job_queue' = IF job_queue = <<>> THEN job_queue
                                ELSE QueueRest(job_queue)
                /\ IF item # None
                   THEN /\ bad = None
                        /\ th' = [th EXCEPT ![t].pc = "done",
                                            ![t].result = "job",
                                            ![t].data = item,
                                            ![t].n = taken]
                        /\ UNCHANGED <<functions, codecVars, listVars, state, wire, hist>>
                   ELSE /\ UpdateStateMachines(state, w, bad, FALSE)
                        /\ th' = [th EXCEPT
                                ![t].pc = IF UpdateRaises(state, w, bad)
                                          THEN "done" ELSE "blocked",
                                ![t].result = IF UpdateRaises(state, w, bad)
                                              THEN "error" ELSE @,
                                ![t].n = taken]
    /\ UNCHANGED <<functions, codecVars, wake_pipe, pooled, running, job_lock, clientVars,
                   connected, taskVars, admin_requests, echo_conditions,
                   inbox, srv_handles, srv_jobs, pollVars, rcVars, job,
                   notified>>

\* job = self.job_queue.get() returns: the job, or InterruptedError for None
GetJobTake(t) ==
    /\ th[t].pc = "blocked"
    /\ job_queue # <<>>
    /\ job_queue' = QueueRest(job_queue)
    /\ th' = [th EXCEPT ![t].pc = "done",
                        ![t].result = IF QueueItem(job_queue) = None
                                      THEN "InterruptedError" ELSE "job",
                        ![t].data = QueueItem(job_queue),
                        ![t].n = @ + 1]
    /\ UNCHANGED <<functions, codecVars, listVars, wake_pipe, pooled, running, waiting_for_jobs,
                   job_lock, clientVars, connVars, sockVars, pollVars, rcVars,
                   job, notified, hist>>

\* ------------------------------------------------ Worker.stopWaitingForJobs
\* job_lock is acquired and the active list is copied ("while True").
StopBegin(t) ==
    /\ th[t].pc = "stop" \/ (t \in StopThreads /\ th[t].pc = "idle")
    /\ job_lock = None
    /\ job_lock' = t
    /\ th' = [th EXCEPT ![t].pc = "scan", ![t].todo = active_connections,
                        ![t].success = TRUE]
    /\ UNCHANGED <<functions, codecVars, listVars, wake_pipe, pooled, running, waiting_for_jobs,
                   job_queue, clientVars, connVars, sockVars, pollVars,
                   rcVars, job, notified, hist>>

\* One connection of the copy: in GRAB_WAIT for more than 5 seconds (stale)
\* it is marked lost, in GRAB_WAIT for less ok becomes False.
StopScan(t, stale) ==
    /\ th[t].pc = "scan"
    /\ th[t].todo # <<>>
    /\ LET c == Head(th[t].todo)
           grab == state[c] = "GRAB_WAIT"
       IN  /\ stale => grab
           /\ LostIf(grab /\ stale, c, FALSE)
           /\ th' = [th EXCEPT ![t].todo = Tail(@),
                               ![t].success = @ /\ (grab => stale)]
    /\ UNCHANGED <<codecVars, wake_pipe, pooled, workerVars, clientVars, connVars,
                   sockVars, pollVars, rcVars, job, notified, hist>>

\* Not ok: job_lock is released for time.sleep(0.1) and the loop starts
\* again.
StopSleep(t) ==
    /\ th[t].pc = "scan"
    /\ th[t].todo = <<>>
    /\ ~th[t].success
    /\ job_lock' = None
    /\ Goto(t, "stop")
    /\ UNCHANGED <<functions, codecVars, listVars, wake_pipe, pooled, running, waiting_for_jobs,
                   job_queue, clientVars, connVars, sockVars, pollVars,
                   rcVars, job, notified, hist>>

\* A variant of Sentinels that queues a single None when there are waiters.
SentinelsOne(w) == IF w > 0 THEN <<None>> ELSE <<>>

\* "while self.waiting_for_jobs > 0: ... self.job_queue.put(None)"
Sentinels(w) == [i \in 1..w |-> None]

\* ok: one None is queued per counted waiter, _updateStateMachines runs with
\* no waiter left (it sends nothing) and job_lock is released.  Within
\* Worker._shutdown the caller goes on to _cleanup.  th.attempted keeps the
\* threads that were blocked in getJob at this moment.
StopEnd(t) ==
    /\ th[t].pc = "scan"
    /\ th[t].todo = <<>>
    /\ th[t].success
    /\ LET w == IF waiting_for_jobs > 0 THEN 0 ELSE waiting_for_jobs IN
        /\ job_queue' = job_queue \o Sentinels(waiting_for_jobs)
        /\ waiting_for_jobs' = w
        /\ UpdateStateMachines(state, w, None, FALSE)
    /\ job_lock' = None
    /\ th' = [th EXCEPT
            ![t].pc = IF t \in ShutdownThreads THEN "cleanup" ELSE "done",
            ![t].result = IF t \in ShutdownThreads THEN @ ELSE "ok",
            ![t].attempted = BlockedThreads]
    /\ UNCHANGED <<functions, codecVars, wake_pipe, pooled, running, clientVars, connected,
                   taskVars, admin_requests, echo_conditions, inbox,
                   srv_handles, srv_jobs, pollVars, rcVars, job, notified>>

\* ---------------------------------------------------------- Worker.shutdown
\* BaseClientServer.shutdown with Worker._shutdown: under job_lock running
\* is cleared, the condition is notified and the wake pipe is written; then
\* stopWaitingForJobs is called.
ShutdownBegin(t) ==
    /\ th[t].pc = "idle"
    /\ IF running
       THEN /\ job_lock = None
            /\ running' = FALSE
            /\ wake_pipe' = WakeWrite(wake_pipe)
            /\ Goto(t, "stop")
       ELSE /\ Return(t, "ignored")
            /\ UNCHANGED <<running, wake_pipe>>
    /\ UNCHANGED <<functions, codecVars, listVars, pooled, waiting_for_jobs, job_queue, job_lock,
                   clientVars, connVars, sockVars, pollVars, rcVars, job,
                   notified, hist>>

\* _cleanup: the Poller and the Reconnector are joined, every active
\* connection is disconnected, both lists are emptied and the two ends of
\* the wake pipe are closed.
ShutdownCleanup(t) ==
    /\ th[t].pc = "cleanup"
    /\ ~polling
    /\ rc_pc = "idle"
    /\ rc_todo = <<>>
    /\ active_connections' = <<>>
    /\ inactive_connections' = <<>>
    /\ connected' = [c \in Conns |->
                        connected[c] /\ ~Contains(active_connections, c)]
    /\ ConnInit({c \in Conns : Contains(active_connections, c)})
    /\ wake_pipe' = Closed
    /\ Return(t, "ok")
    /\ UNCHANGED <<codecVars, lost_call, pooled, workerVars, clientVars,
                   sockVars, pollVars, rcVars, job, notified, hist>>

\* ---------------------------------------------- the Worker packet handlers
\* Worker.handleNoop, under job_lock.  A send that raises marks the
\* connection lost and the exception leaves _pollLoop.
HandleNoop(c, ok) ==
    /\ CanRead(c, "NOOP")
    /\ job_lock = None
    /\ inbox' = [inbox EXCEPT ![c] = Tail(@)]
    /\ IF state[c] = "SLEEP"
       THEN /\ ok \/ MayFail
            /\ hist' = IF ok THEN hist ELSE Fault(hist)
            /\ wire' = [wire EXCEPT ![c] =
                            IF ok THEN Append(@, GrabJobUniq) ELSE @]
            /\ state' = [state EXCEPT ![c] = IF ok THEN "GRAB_WAIT" ELSE @]
            /\ LostIf(~ok, c, TRUE)
            /\ polling' = ok
       ELSE /\ ok
            /\ UNCHANGED <<codecVars, listVars, hist, wire, state, polling>>
    /\ UNCHANGED <<codecVars, wake_pipe, pooled, workerVars, clientVars, connected,
                   taskVars, admin_requests, echo_conditions, srv_handles,
                   srv_jobs, conn_dict, rcVars, job, th, notified>>

\* Worker.handleNoJob, under job_lock.
HandleNoJob(c, ok) ==
    /\ CanRead(c, "NO_JOB")
    /\ job_lock = None
    /\ inbox' = [inbox EXCEPT ![c] = Tail(@)]
    /\ IF state[c] = "GRAB_WAIT"
       THEN /\ ok \/ MayFail
            /\ hist' = IF ok THEN hist ELSE Fault(hist)
            /\ wire' = [wire EXCEPT ![c] =
                            IF ok THEN Append(@, PreSleep) ELSE @]
            /\ state' = [state EXCEPT ![c] = IF ok THEN "SLEEP" ELSE @]
            /\ LostIf(~ok, c, TRUE)
            /\ polling' = ok
       ELSE /\ ok
            /\ UNCHANGED <<codecVars, listVars, hist, wire, state, polling>>
    /\ UNCHANGED <<codecVars, wake_pipe, pooled, workerVars, clientVars, connected,
                   taskVars, admin_requests, echo_conditions, srv_handles,
                   srv_jobs, conn_dict, rcVars, job, th, notified>>

\* Worker._handleJobAssignment: the WorkerJob (its handle) is bound to the
\* connection; under job_lock the state becomes IDLE, waiting_for_jobs is
\* decremented, the job is queued and _updateStateMachines runs.
HandleJobAssignment(c, ptype, bad) ==
    /\ CanRead(c, ptype)
    /\ job_lock = None
    /\ LET st == [state EXCEPT ![c] = "IDLE"]
           w == waiting_for_jobs - 1
       IN  /\ waiting_for_jobs' = w
           /\ job_queue' = Append(job_queue, Head(inbox[c]).data)
           /\ UpdateStateMachines(st, w, bad, TRUE)
           /\ polling' = ~UpdateRaises(st, w, bad)
    /\ inbox' = [inbox EXCEPT ![c] = Tail(@)]
    /\ UNCHANGED <<functions, codecVars, wake_pipe, pooled, running, job_lock, clientVars,
                   connected, taskVars, admin_requests, echo_conditions,
                   srv_handles, srv_jobs, conn_dict, rcVars, job, th,
                   notified>>

\* Worker.handleJobAssign
HandleJobAssign(c, bad) == HandleJobAssignment(c, "JOB_ASSIGN", bad)

\* Worker.handleJobAssignUnique
HandleJobAssignUnique(c, bad) == HandleJobAssignment(c, "JOB_ASSIGN_UNIQ", bad)

\* ------------------------------------------------- the job server's side
\* The server answers the GRAB_JOB_UNIQ at the head of what it received with
\* a job (JOB_ASSIGN_UNIQ, or JOB_ASSIGN) ...
ServerJobAssign(c, uniq) ==
    /\ connected[c]
    /\ wire[c] # <<>>
    /\ Head(wire[c]).ptype = "GRAB_JOB_UNIQ"
    /\ srv_handles[c] < MaxHandles
    /\ LET h == Handle(c, srv_handles[c] + 1) IN
        /\ srv_handles' = [srv_handles EXCEPT ![c] = @ + 1]
        /\ srv_jobs' = [srv_jobs EXCEPT ![c] = @ \cup {h}]
        /\ inbox' = [inbox EXCEPT ![c] =
                Append(@, Packet(IF uniq THEN "JOB_ASSIGN_UNIQ"
                                 ELSE "JOB_ASSIGN", h, None))]
    /\ wire' = [wire EXCEPT ![c] = Tail(@)]
    /\ UNCHANGED <<codecVars, listVars, wake_pipe, pooled, workerVars, clientVars,
                   connVars, pollVars, rcVars, job, th, notified, hist>>

\* ... or with NO_JOB.
ServerNoJob(c) ==
    /\ connected[c]
    /\ wire[c] # <<>>
    /\ Head(wire[c]).ptype = "GRAB_JOB_UNIQ"
    /\ wire' = [wire EXCEPT ![c] = Tail(@)]
    /\ inbox' = [inbox EXCEPT ![c] = Append(@, Packet("NO_JOB", None, None))]
    /\ UNCHANGED <<codecVars, listVars, wake_pipe, pooled, workerVars, clientVars,
                   connVars, srv_handles, srv_jobs, pollVars, rcVars, job, th,
                   notified, hist>>

\* After PRE_SLEEP the server wakes the worker with NOOP.
ServerNoop(c) ==
    /\ connected[c]
    /\ wire[c] # <<>>
    /\ Head(wire[c]).ptype = "PRE_SLEEP"
    /\ wire' = [wire EXCEPT ![c] = Tail(@)]
    /\ inbox' = [inbox EXCEPT ![c] = Append(@, Packet("NOOP", None, None))]
    /\ UNCHANGED <<codecVars, listVars, wake_pipe, pooled, workerVars, clientVars,
                   connVars, srv_handles, srv_jobs, pollVars, rcVars, job, th,
                   notified, hist>>

\* The Reconnector of a Worker
WorkerReconnector ==
    \/ RcSnapshot
    \/ \E ok \in BOOLEAN : RcReconnect(ok)
    \/ \E ok \in BOOLEAN : WkOnConnect(ok)
    \/ WkPromote
    \/ \E bad \in Conns \cup {None} : WkOnActive(bad)

\* A Worker with two servers and two threads in getJob.
NextWorker ==
    \/ \E c \in Conns : AddServer(c)
    \/ WorkerReconnector
    \/ PollerStart
    \/ PollerWake
    \/ \E c \in Conns : PollerLost(c)
    \/ \E c \in Conns, ok \in BOOLEAN : HandleNoop(c, ok)
    \/ \E c \in Conns, ok \in BOOLEAN : HandleNoJob(c, ok)
    \/ \E c \in Conns, bad \in Conns \cup {None} : HandleJobAssign(c, bad)
    \/ \E c \in Conns, bad \in Conns \cup {None} :
            HandleJobAssignUnique(c, bad)
    \/ \E c \in Conns, uniq \in BOOLEAN : ServerJobAssign(c, uniq)
    \/ \E c \in Conns : ServerNoJob(c)
    \/ \E c \in Conns : ServerNoop(c)
    \/ \E t \in GetJobThreads, bad \in Conns \cup {None} : GetJobEnter(t, bad)
    \/ \E t \in GetJobThreads : GetJobTake(t)

SpecWorker == Init /\ [][NextWorker]_vars

\* A Worker with one server and two threads in getJob.
NextGetJob ==
    \/ \E c \in ConnsE : AddServer(c)
    \/ WorkerReconnector
    \/ PollerStart
    \/ PollerWake
    \/ \E c \in ConnsE : PollerLost(c)
    \/ \E c \in ConnsE, ok \in BOOLEAN : HandleNoop(c, ok)
    \/ \E c \in ConnsE, ok \in BOOLEAN : HandleNoJob(c, ok)
    \/ \E c \in ConnsE, bad \in ConnsE \cup {None} : HandleJobAssign(c, bad)
    \/ \E c \in ConnsE, bad \in ConnsE \cup {None} :
            HandleJobAssignUnique(c, bad)
    \/ \E c \in ConnsE, uniq \in BOOLEAN : ServerJobAssign(c, uniq)
    \/ \E c \in ConnsE : ServerNoJob(c)
    \/ \E c \in ConnsE : ServerNoop(c)
    \/ \E t \in GetJobThreads, bad \in ConnsE \cup {None} : GetJobEnter(t, bad)
    \/ \E t \in GetJobThreads : GetJobTake(t)

SpecGetJob == Init /\ [][NextGetJob]_vars

\* The same with a thread that calls stopWaitingForJobs.
NextStop ==
    \/ \E c \in ConnsE : AddServer(c)
    \/ WorkerReconnector
    \/ PollerStart
    \/ PollerWake
    \/ \E c \in ConnsE : PollerLost(c)
    \/ \E c \in ConnsE, ok \in BOOLEAN : HandleNoop(c, ok)
    \/ \E c \in ConnsE, ok \in BOOLEAN : HandleNoJob(c, ok)
    \/ \E c \in ConnsE, bad \in ConnsE \cup {None} : HandleJobAssign(c, bad)
    \/ \E c \in ConnsE, bad \in ConnsE \cup {None} :
            HandleJobAssignUnique(c, bad)
    \/ \E c \in ConnsE, uniq \in BOOLEAN : ServerJobAssign(c, uniq)
    \/ \E c \in ConnsE : ServerNoJob(c)
    \/ \E c \in ConnsE : ServerNoop(c)
    \/ \E t \in GetJobThreads, bad \in ConnsE \cup {None} : GetJobEnter(t, bad)
    \/ \E t \in GetJobThreads : GetJobTake(t)
    \/ \E t \in StopThreads : StopBegin(t)
    \/ \E t \in StopThreads, stale \in BOOLEAN : StopScan(t, stale)
    \/ \E t \in StopThreads : StopSleep(t)
    \/ \E t \in StopThreads : StopEnd(t)

SpecStop == Init /\ [][NextStop]_vars

\* The same with a thread that calls shutdown instead.
NextShutdown ==
    \/ \E c \in ConnsE : AddServer(c)
    \/ WorkerReconnector
    \/ PollerStart
    \/ PollerWake
    \/ \E c \in ConnsE : PollerLost(c)
    \/ \E c \in ConnsE, ok \in BOOLEAN : HandleNoop(c, ok)
    \/ \E c \in ConnsE, ok \in BOOLEAN : HandleNoJob(c, ok)
    \/ \E c \in ConnsE, bad \in ConnsE \cup {None} : HandleJobAssign(c, bad)
    \/ \E c \in ConnsE, bad \in ConnsE \cup {None} :
            HandleJobAssignUnique(c, bad)
    \/ \E c \in ConnsE, uniq \in BOOLEAN : ServerJobAssign(c, uniq)
    \/ \E c \in ConnsE : ServerNoJob(c)
    \/ \E c \in ConnsE : ServerNoop(c)
    \/ \E t \in GetJobThreads, bad \in ConnsE \cup {None} : GetJobEnter(t, bad)
    \/ \E t \in GetJobThreads : GetJobTake(t)
    \/ \E t \in ShutdownThreads : ShutdownBegin(t)
    \/ \E t \in ShutdownThreads : StopBegin(t)
    \/ \E t \in ShutdownThreads, stale \in BOOLEAN : StopScan(t, stale)
    \/ \E t \in ShutdownThreads : StopSleep(t)
    \/ \E t \in ShutdownThreads : StopEnd(t)
    \/ \E t \in ShutdownThreads : ShutdownCleanup(t)

SpecShutdown == Init /\ [][NextShutdown]_vars

\* A Worker with two servers and three threads in getJob, in the runs where
\* no connect and no send fails and no socket is lost.
NextGrab ==
    \/ \E c \in Conns : AddServer(c)
    \/ RcSnapshot
    \/ RcReconnect(TRUE)
    \/ WkOnConnect(TRUE)
    \/ WkPromote
    \/ WkOnActive(None)
    \/ PollerStart
    \/ PollerWake
    \/ \E c \in Conns : HandleNoop(c, TRUE)
    \/ \E c \in Conns : HandleNoJob(c, TRUE)
    \/ \E c \in Conns : HandleJobAssignUnique(c, None)
    \/ \E c \in Conns : ServerJobAssign(c, TRUE)
    \/ \E c \in Conns : ServerNoJob(c)
    \/ \E c \in Conns : ServerNoop(c)
    \/ \E t \in MoreGetJobThreads : GetJobEnter(t, None)
    \/ \E t \in MoreGetJobThreads : GetJobTake(t)

SpecGrab == Init /\ [][NextGrab]_vars

\* ------------------------------------------------------------ Worker claims
\* getJob of thread t has returned a job
ReturnedJob(t) == th[t].pc = "done" /\ th[t].result = "job"

\* the threads whose getJob returned job h
Getters(h) == {t \in GetJobThreads : ReturnedJob(t) /\ th[t].data = h}

InQueue(h) == Contains(job_queue, h)

C11_Delivered ==
    /\ \A t \in GetJobThreads : ReturnedJob(t) => th[t].data \in Handles
    /\ \A h \in Handles :
        /\ Cardinality(Getters(h)) <= 1
        /\ ~(InQueue(h) /\ Getters(h) # {})
        /\ Cardinality({i \in 1..Len(job_queue) : job_queue[i] = h}) <= 1

C11_Step ==
    /\ \A h \in Handles :
        (InQueue(h) \/ Getters(h) # {}) => (InQueue(h) \/ Getters(h) # {})'
    /\ \A c \in Conns :
        (/\ CanRead(c, "JOB_ASSIGN") \/ CanRead(c, "JOB_ASSIGN_UNIQ")
         /\ inbox'[c] = Tail(inbox[c])
         /\ rc_todo' = rc_todo)
        => Contains(job_queue', Head(inbox[c]).data)
    /\ \A t \in GetJobThreads :
        th[t].pc = "blocked" /\ th'[t].pc # "blocked"
        => /\ job_queue # <<>>
           /\ job_queue' = Tail(job_queue)
           /\ th'[t].data = Head(job_queue)
           /\ \A u \in GetJobThreads \ {t} : th'[u] = th[u]

C12_NoIdleWhileWaiting ==
    (job_lock = None /\ rc_pc # "onactive" /\ waiting_for_jobs > 0)
    => \A c \in SetOf(active_connections) : state[c] # "IDLE"

\* stopWaitingForJobs has returned to the thread that called it
StopReturned == \E t \in StopThreads : th[t].pc = "done"

\* the None items of a queue
Nones(q) == {i \in 1..Len(q) : q[i] = None}

\* C13 (state at the return): waiting_for_jobs is 0 and no active connection
\* is in GRAB_WAIT.
C13_AtReturn ==
    /\ waiting_for_jobs' = 0
    /\ \A c \in SetOf(active_connections') : state'[c] # "GRAB_WAIT"

\* C13 (one None per waiter): the queue has an item for every thread blocked
\* in getJob, and no None beyond that.
C13_OnePerWaiter ==
    /\ Cardinality(BlockedThreads) <= Len(job_queue')
    /\ Nones(job_queue') # {} => Len(job_queue') <= Cardinality(BlockedThreads)

\* C13 (release): a thread that was blocked in getJob when the call queued
\* its None items (the call's th.attempted) is not left blocked on an empty
\* queue.
C13_Released ==
    \A t \in StopThreads : th[t].pc = "done" =>
        \A u \in th[t].attempted : th[u].pc = "blocked" => job_queue # <<>>

\* C13: stopWaitingForJobs releases every thread blocked in getJob with one
\* None each and no None more, and when it returns waiting_for_jobs is 0
\* and no active connection is in GRAB_WAIT.
C13_StopReleasesEveryWaiter ==
    /\ [][(StopReturned' /\ ~StopReturned) =>
                (C13_AtReturn /\ C13_OnePerWaiter)]_vars
    /\ [](C13_Released)

\* SpecShutdown with the scheduling the threads of the program get: a thread
\* that can take an item of the queue, acquire the free job_lock or leave its
\* sleep does so, and a connection cannot stay younger than 5 seconds in
\* GRAB_WAIT for ever, so a scan that keeps meeting it finds it stale.
FairShutdown ==
    /\ SpecShutdown
    /\ \A t \in GetJobThreads : WF_vars(GetJobTake(t))
    /\ \A t \in ShutdownThreads :
        /\ WF_vars(StopBegin(t))
        /\ WF_vars(\E stale \in BOOLEAN : StopScan(t, stale))
        /\ SF_vars(StopScan(t, TRUE))
        /\ WF_vars(StopSleep(t))
        /\ WF_vars(StopEnd(t))

\* the stopWaitingForJobs call of shutdown has returned
ShutdownStopped ==
    \E t \in ShutdownThreads : th[t].pc \in {"cleanup", "done"}

\* C14 (late callers): a getJob that takes job_lock after running was cleared
\* raises InterruptedError and leaves waiting_for_jobs alone.
C14_Step ==
    \A t \in GetJobThreads :
        (~running /\ th[t].pc = "idle" /\ th'[t].pc # "idle")
        => /\ th'[t].pc = "done"
           /\ th'[t].result = "InterruptedError"
           /\ waiting_for_jobs' = waiting_for_jobs

\* C14 (early callers): once the stopWaitingForJobs of shutdown has returned
\* the queue has an item for every thread still blocked in getJob.
C14_Released == ShutdownStopped => Cardinality(BlockedThreads) <= Len(job_queue)

\* C14: whatever the interleaving of shutdown with getJob calls, no getJob
\* blocks for ever: a call that finds running cleared raises InterruptedError
\* without counting itself, and a call blocked when running is cleared
\* returns.
C14_NoGetJobBlocksForever ==
    /\ [][C14_Step]_vars
    /\ [](C14_Released)
    /\ \A t \in GetJobThreads :
        (~running /\ th[t].pc = "blocked") ~> (th[t].pc = "done")

\* shutdown has queued a None for a thread that is still blocked, and another
\* getJob was refused.
C14_Witness ==
    /\ ~running
    /\ ShutdownStopped
    /\ \E t, u \in GetJobThreads :
        /\ th[t].pc = "blocked"
        /\ job_queue = <<None>>
        /\ th[u].pc = "done"
        /\ th[u].result = "InterruptedError"

\* A packet of type ptype of connection c is handled in this step
Handled(c, ptype) ==
    /\ CanRead(c, ptype)
    /\ inbox'[c] = Tail(inbox[c])
    /\ rc_todo' = rc_todo

\* the packets connection c sends in this step
Sent(c) ==
    IF Len(wire'[c]) > Len(wire[c])
    THEN SubSeq(wire'[c], Len(wire[c]) + 1, Len(wire'[c])) ELSE <<>>

\* C15 (edges): the state of a connection of the active list changes only
\* along IDLE -> GRAB_WAIT (with waiters, one GRAB_JOB_UNIQ sent),
\* GRAB_WAIT -> SLEEP (NO_JOB handled, PRE_SLEEP sent), SLEEP -> GRAB_WAIT
\* (NOOP handled, GRAB_JOB_UNIQ sent), GRAB_WAIT -> IDLE (JOB_ASSIGN or
\* JOB_ASSIGN_UNIQ handled) and anything -> IDLE with no waiter.
C15_Edges ==
    \A c \in SetOf(active_connections) :
        state'[c] # state[c] =>
            \/ /\ state[c] = "IDLE" /\ state'[c] = "GRAB_WAIT"
               /\ waiting_for_jobs' > 0
               /\ Sent(c) = <<GrabJobUniq>>
            \/ /\ state[c] = "GRAB_WAIT" /\ state'[c] = "SLEEP"
               /\ Handled(c, "NO_JOB")
               /\ Sent(c) = <<PreSleep>>
            \/ /\ state[c] = "SLEEP" /\ state'[c] = "GRAB_WAIT"
               /\ Handled(c, "NOOP")
               /\ Sent(c) = <<GrabJobUniq>>
            \/ /\ state[c] = "GRAB_WAIT" /\ state'[c] = "IDLE"
               /\ Handled(c, "JOB_ASSIGN") \/ Handled(c, "JOB_ASSIGN_UNIQ")
            \/ /\ state'[c] = "IDLE"
               /\ waiting_for_jobs' = 0

\* C15 (ignored packets): NOOP in a state other than SLEEP and NO_JOB in a
\* state other than GRAB_WAIT send nothing and leave the state as it is.
C15_Ignored ==
    \A c \in Conns :
        (\/ Handled(c, "NOOP") /\ state[c] # "SLEEP"
         \/ Handled(c, "NO_JOB") /\ state[c] # "GRAB_WAIT")
        => wire' = wire /\ state' = state

\* C15: the state machine of a worker connection has only the edges above.
C15_StateMachineEdges == [][C15_Edges /\ C15_Ignored]_vars

\* C16: waiting_for_jobs, the count of the threads blocked in getJob, is
\* never negative.
C16_NeverNegative == waiting_for_jobs >= 0

\* ---------------------------------------------------------- the pool claims
\* Two concurrent submitJob callers and one server that also reports the end
\* of the jobs it accepted.
NextLost ==
    \/ \E c \in ConnsE : AddServer(c)
    \/ Reconnector
    \/ PollerStart
    \/ PollerWake
    \/ \E c \in ConnsE : PollerLost(c)
    \/ \E c \in ConnsE : HandleJobCreated(c)
    \/ \E c \in ConnsE : HandleWorkComplete(c)
    \/ \E c \in ConnsE : ServerJobCreated(c)
    \/ \E c \in ConnsE, h \in Handles : ServerWork(c, h, "WORK_COMPLETE", None)
    \/ \E t \in SubmitThreads : SubmitLoop(t)
    \/ \E t \in SubmitThreads : SubmitGetConnection(t)
    \/ \E t \in SubmitThreads : SubmitAppend(t)
    \/ \E t \in SubmitThreads, ok \in BOOLEAN : SubmitSend(t, ok)
    \/ \E t \in SubmitThreads : SubmitWait(t)
    \/ HandleDisconnectJobs

SpecLost == Init /\ [][NextLost]_vars

\* how many times x is in the list s
Count(s, x) == Cardinality({i \in 1..Len(s) : s[i] = x})

\* C17 (lists): a call of _lostConnection leaves the connection out of the
\* active list and once in the inactive list, and changes neither list if
\* the connection was lost already.
C17_Lists ==
    lost_call'.flip # lost_call.flip =>
        LET c == lost_call'.conn IN
        /\ ~Contains(active_connections', c)
        /\ Count(inactive_connections', c) = 1
        /\ (~Contains(active_connections, c)
                /\ Contains(inactive_connections, c))
           => /\ active_connections' = active_connections
              /\ inactive_connections' = inactive_connections

\* C17 (hook): when the loop of a call is over, handleDisconnect has been
\* invoked for every job that was in the connection's related_jobs at the
\* call.
C17_Hooked == lost_call.done => lost_call.jobs \subseteq lost_call.hooked

\* C17: a connection marked lost is in the inactive list only, once, and
\* every job of its related-jobs map went through the disconnect hook.
C17_LostConnectionSurfacesJobs == [][C17_Lists]_vars /\ [](C17_Hooked)

\* C18 (wake): a call of _lostConnection writes to the wake pipe.
C18_WakeWritten ==
    lost_call'.flip # lost_call.flip => wake_pipe' > wake_pipe

\* C18 (readiness set): the Poller takes no packet from, and does not mark
\* lost, a connection that is not in the active list.
C18_NoStaleRead ==
    \A c \in Conns :
        (/\ polling
         /\ rc_todo' = rc_todo
         /\ \/ inbox[c] # <<>> /\ inbox'[c] = Tail(inbox[c])
            \/ lost_call'.flip # lost_call.flip /\ lost_call'.conn = c
                    /\ ~polling')
        => Contains(active_connections, c)

\* C18: marking a connection lost wakes the Poller through the wake pipe,
\* and the Poller never polls or reads a connection that left the active
\* list.
C18_LostConnectionWakesPoller == [][C18_WakeWritten /\ C18_NoStaleRead]_vars

\* C19 (promotion): a connection enters the active list only in the step of
\* the Reconnector that follows its successful reconnect and its completed
\* on-connect hook (the Worker's hook has set the state IDLE); the step takes
\* it out of the inactive list and writes to the wake pipe.
C19_Promotion ==
    \A c \in Conns :
        (~Contains(active_connections, c) /\ Contains(active_connections', c))
        => /\ rc_pc = "promote" /\ rc_conn = c
           /\ connected[c] /\ state[c] = "IDLE"
           /\ Contains(inactive_connections, c)
           /\ ~Contains(inactive_connections', c)
           /\ wake_pipe' = wake_pipe + 1

\* C19 (failure): a reconnect or an on-connect hook that fails leaves the
\* connection in the inactive list.
C19_Failure ==
    /\ (rc_pc = "idle" /\ rc_todo # <<>> /\ rc_todo' = Tail(rc_todo)
            /\ rc_pc' = "idle")
       => /\ Contains(inactive_connections', Head(rc_todo))
          /\ ~Contains(active_connections', Head(rc_todo))
    /\ (rc_pc = "onconnect" /\ rc_pc' = "idle")
       => /\ Contains(inactive_connections', rc_conn)
          /\ ~Contains(active_connections', rc_conn)

\* C19: a connection becomes active only after reconnect and on-connect hook
\* both succeeded, stays inactive otherwise, and every promotion writes to
\* the wake pipe.
C19_PromotionAfterHook == [][C19_Promotion /\ C19_Failure]_vars

\* The on-connect hook of a connected server failed: the Reconnector is back
\* at its loop and the connection is still inactive.
C19_Witness ==
    \E c \in Conns :
        /\ rc_pc = "idle"
        /\ connected[c]
        /\ state[c] = "INIT"
        /\ Contains(inactive_connections, c)
        /\ ~Contains(active_connections, c)

\* The peer closes the socket of connection c: after what it sent before,
\* recv returns no data.
ServerClose(c) ==
    /\ connected[c]
    /\ \A i \in 1..Len(inbox[c]) : inbox[c][i].ptype # "EOF"
    /\ inbox' = [inbox EXCEPT ![c] = Append(@, Packet("EOF", None, None))]
    /\ UNCHANGED <<codecVars, listVars, wake_pipe, pooled, workerVars, clientVars,
                   connVars, wire, srv_handles, srv_jobs, pollVars, rcVars,
                   job, th, notified, hist>>

\* _pollLoop: readPacket returns None ("Received no data"), the connection
\* is marked lost and _pollLoop returns.
PollerEof(c) ==
    /\ CanRead(c, "EOF")
    /\ LostConnection(c, TRUE)
    /\ polling' = FALSE
    /\ UNCHANGED <<codecVars, wake_pipe, pooled, workerVars, clientVars, connVars,
                   sockVars, conn_dict, rcVars, job, th, notified, hist>>

\* A Worker with one server that may close the socket, two threads in getJob.
NextPool ==
    \/ \E c \in ConnsE : AddServer(c)
    \/ WorkerReconnector
    \/ PollerStart
    \/ PollerWake
    \/ \E c \in ConnsE : PollerLost(c)
    \/ \E c \in ConnsE : PollerEof(c)
    \/ \E c \in ConnsE, ok \in BOOLEAN : HandleNoop(c, ok)
    \/ \E c \in ConnsE, ok \in BOOLEAN : HandleNoJob(c, ok)
    \/ \E c \in ConnsE, bad \in ConnsE \cup {None} : HandleJobAssign(c, bad)
    \/ \E c \in ConnsE, bad \in ConnsE \cup {None} :
            HandleJobAssignUnique(c, bad)
    \/ \E c \in ConnsE, uniq \in BOOLEAN : ServerJobAssign(c, uniq)
    \/ \E c \in ConnsE : ServerNoJob(c)
    \/ \E c \in ConnsE : ServerNoop(c)
    \/ \E c \in ConnsE : ServerClose(c)
    \/ \E t \in GetJobThreads, bad \in ConnsE \cup {None} : GetJobEnter(t, bad)
    \/ \E t \in GetJobThreads : GetJobTake(t)

\* The two background threads are scheduled: the Poller takes the step it
\* can take (leave poll() for the wake pipe, for a packet or for a closed
\* socket, start polling again) and so does the Reconnector.
FairPool ==
    /\ Init /\ [][NextPool]_vars
    /\ WF_vars(PollerStart)
    /\ WF_vars(PollerWake)
    /\ \A c \in ConnsE :
        /\ WF_vars(PollerEof(c))
        /\ WF_vars(\E ok \in BOOLEAN : HandleNoop(c, ok))
        /\ WF_vars(\E ok \in BOOLEAN : HandleNoJob(c, ok))
        /\ WF_vars(\E bad \in ConnsE \cup {None} : HandleJobAssign(c, bad))
        /\ WF_vars(\E bad \in ConnsE \cup {None} :
                        HandleJobAssignUnique(c, bad))
    /\ WF_vars(RcSnapshot)
    /\ WF_vars(\E ok \in BOOLEAN : RcReconnect(ok))
    /\ WF_vars(\E ok \in BOOLEAN : WkOnConnect(ok))
    /\ WF_vars(WkPromote)
    /\ WF_vars(\E bad \in ConnsE \cup {None} : WkOnActive(bad))

\* the peer of connection c has closed the socket the connection has now
PeerClosed(c) == \E i \in 1..Len(inbox[c]) : inbox[c][i].ptype = "EOF"

\* the peer of c accepts the next connect and nothing fails from now on
PeerReachable(c) == n_connect[c] < MaxConnect /\ ~MayFail

C21_OptionsSurviveReconnect ==
    \A t \in OptionThreads :
        th[t].pc = "done" =>
            \A c \in SetOf(active_connections) :
                th[t].data \in hist.option_reqs[c]
\* ------------------------------------------------ Worker: the abilities
NFunctions == 1      \* distinct function names

Functions == 1..NFunctions

\* What the peer knows of the worker's abilities after it read the packet
Abilities(known, p) ==
    IF p.ptype \in {"CAN_DO", "CAN_DO_TIMEOUT"} THEN known \cup {p.data}
    ELSE IF p.ptype = "CANT_DO" THEN known \ {p.data}
    ELSE IF p.ptype = "RESET_ABILITIES" THEN {}
    ELSE known

\* registerFunction: the record is stored, then _sendCanDo or
\* _sendCanDoTimeout is called.
RegisterFunction(t, name, timeout) ==
    /\ th[t].pc = "idle"
    /\ functions' = functions \cup {name}
    /\ th' = [th EXCEPT ![t].pc = "broadcast", ![t].task = "register",
                        ![t].data = Packet(IF timeout THEN "CAN_DO_TIMEOUT"
                                           ELSE "CAN_DO", name, None)]
    /\ UNCHANGED <<listVars, wake_pipe, pooled, running, waiting_for_jobs,
                   job_queue, job_lock, codecVars, clientVars, connVars,
                   sockVars, pollVars, rcVars, job, notified, hist>>

\* unRegisterFunction: "del self.functions[name]" raises KeyError for a name
\* that is not registered; otherwise _sendCantDo is called.
UnRegisterFunction(t, name) ==
    /\ th[t].pc = "idle"
    /\ functions' = functions \ {name}
    /\ th' = IF name \in functions
             THEN [th EXCEPT ![t].pc = "broadcast", ![t].task = "unregister",
                             ![t].data = Packet("CANT_DO", name, None)]
             ELSE [th EXCEPT ![t].pc = "done", ![t].result = "KeyError"]
    /\ UNCHANGED <<listVars, wake_pipe, pooled, running, waiting_for_jobs,
                   job_queue, job_lock, codecVars, clientVars, connVars,
                   sockVars, pollVars, rcVars, job, notified, hist>>

\* setFunctions: _sendResetAbilities comes first; the new records (attempted)
\* are kept for the steps that follow.
SetFunctions(t, fs) ==
    /\ th[t].pc = "idle"
    /\ th' = [th EXCEPT ![t].pc = "broadcast", ![t].task = "reset",
                        ![t].attempted = fs,
                        ![t].data = Packet("RESET_ABILITIES", None, None)]
    /\ UNCHANGED <<listVars, wake_pipe, pooled, workerVars, codecVars,
                   clientVars, connVars, sockVars, pollVars, rcVars, job,
                   notified, hist>>

\* setFunctions: "self.functions = {}" and the loop that stores the records
SetFunctionsAssign(t) ==
    /\ th[t].pc = "assign"
    /\ functions' = th[t].attempted
    /\ th' = [th EXCEPT ![t].pc = "next", ![t].task = "set",
                        ![t].tasks = OptionNames(th[t].attempted)]
    /\ UNCHANGED <<listVars, wake_pipe, pooled, running, waiting_for_jobs,
                   job_queue, job_lock, codecVars, clientVars, connVars,
                   sockVars, pollVars, rcVars, job, notified, hist>>

\* setFunctions: "for f in self.functions.values()", one _sendCanDo each
SetFunctionsNext(t) ==
    /\ th[t].pc = "next"
    /\ th' = IF th[t].tasks = <<>> THEN [th EXCEPT ![t].pc = "done"]
             ELSE [th EXCEPT ![t].pc = "broadcast", ![t].tasks = Tail(@),
                             ![t].data = Packet("CAN_DO", Head(th[t].tasks),
                                                None)]
    /\ UNCHANGED <<listVars, wake_pipe, pooled, workerVars, codecVars,
                   clientVars, connVars, sockVars, pollVars, rcVars, job,
                   notified, hist>>

\* Where the thread goes on when the broadcast of its packet is over
AfterBroadcast(task) ==
    IF task = "reset" THEN "assign" ELSE IF task = "set" THEN "next" ELSE "done"

\* _sendCanDo, _sendCanDoTimeout, _sendCantDo, _sendResetAbilities:
\* broadcast_lock is acquired and broadcast(p) copies the active list.
Broadcast(t) ==
    /\ th[t].pc = "broadcast"
    /\ broadcast_lock = None
    /\ broadcast_lock' = IF active_connections = <<>> THEN None ELSE t
    /\ th' = [th EXCEPT ![t].todo = active_connections,
                        ![t].pc = IF active_connections = <<>>
                                  THEN AfterBroadcast(th[t].task)
                                  ELSE "send"]
    /\ hist' = [hist EXCEPT !.snapshot[t] = active_connections,
                            !.attempts[t] = <<>>]
    /\ UNCHANGED <<listVars, wake_pipe, pooled, workerVars, codecVars,
                   connection_index, client_options, connVars, sockVars,
                   pollVars, rcVars, job, notified>>

\* A variant of the loop's step below that gives up at a failed send.
BroadcastRestAborts(todo, ok) == IF ok THEN Tail(todo) ELSE <<>>

\* broadcast: the connections still to send to after this one; the exception
\* of a failed send is caught inside the loop.
BroadcastRest(todo, ok) == Tail(todo)

\* broadcast: self.sendPacket(packet, connection) for the next connection of
\* the copy.  A failed send calls _lostConnection and its exception is
\* dropped.  After the last connection broadcast_lock is released.
BroadcastSend(t, ok) ==
    /\ th[t].pc = "send"
    /\ ok \/ MayFail
    /\ LET c == Head(th[t].todo)
           sent == ok /\ connected[c]
           rest == BroadcastRest(th[t].todo, sent)
       IN  /\ LostIf(~sent, c, FALSE)
           /\ hist' = [(IF ok THEN hist ELSE Fault(hist)) EXCEPT
                        !.abilities[c] = IF sent THEN Abilities(@, th[t].data)
                                         ELSE @,
                        !.attempts[t] = Append(@, c)]
           /\ th' = [th EXCEPT ![t].todo = rest,
                               ![t].pc = IF rest = <<>>
                                         THEN AfterBroadcast(th[t].task)
                                         ELSE "send"]
           /\ broadcast_lock' = IF rest = <<>> THEN None ELSE broadcast_lock
    /\ UNCHANGED <<wake_pipe, pooled, workerVars, codecVars, connection_index,
                   client_options, connVars, sockVars, pollVars, rcVars, job,
                   notified>>

\* A Worker with one server and a thread that changes the abilities.
NextAbility ==
    \/ \E c \in ConnsE : AddServer(c)
    \/ WorkerReconnector
    \/ PollerStart
    \/ PollerWake
    \/ \E c \in ConnsE : PollerLost(c)
    \/ \E t \in AbilityThreads, name \in Functions, timeout \in BOOLEAN :
            RegisterFunction(t, name, timeout)
    \/ \E t \in AbilityThreads, name \in Functions : UnRegisterFunction(t, name)
    \/ \E t \in AbilityThreads, fs \in SUBSET Functions : SetFunctions(t, fs)
    \/ \E t \in AbilityThreads : SetFunctionsAssign(t)
    \/ \E t \in AbilityThreads : SetFunctionsNext(t)
    \/ \E t \in AbilityThreads : Broadcast(t)
    \/ \E t \in AbilityThreads, ok \in BOOLEAN : BroadcastSend(t, ok)

SpecAbility == Init /\ [][NextAbility]_vars

\* No ability call is in progress and at least one has returned.
AbilityReturned ==
    /\ \A t \in AbilityThreads : th[t].pc \in {"idle", "done"}
    /\ \E t \in AbilityThreads : th[t].pc = "done"

\* the peer of every active connection was told exactly the registered names
C22_Exact ==
    AbilityReturned =>
        \A c \in SetOf(active_connections) : hist.abilities[c] = functions

\* a connection that enters the active list was sent SET_CLIENT_ID (and with
\* it the replay) and is IDLE
C22_Promotion ==
    \A c \in Conns :
        ~Contains(active_connections, c) /\ Contains(active_connections', c) =>
            hist.client_id[c] /\ state'[c] = "IDLE"

\* C22: once an ability call (registerFunction, unRegisterFunction,
\* setFunctions) has returned, every connection in the active list has been
\* sent CAN_DO or CAN_DO_TIMEOUT for exactly the registered functions since
\* its last (re)connect, and a connection becomes active only after
\* SET_CLIENT_ID and the replay were sent and its state is IDLE.
C22_AbilitiesReplayed == []C22_Exact /\ [][C22_Promotion]_vars

\* ----------------------------------------------------- Client.setOption
\* The tasks of the requests the call of thread t sent (attempted) whose
\* wait did not time out: those of the connections it did not drop.
Survivors(t) ==
    {task \in th[t].attempted : <<task, task - 1000>> \notin hist.timed_out}

\* True is returned only if every surviving connection had the name in its
\* accepted options when its task was completed
C23_TrueOnlyIfAccepted ==
    \A t \in OptionThreads :
        th[t].pc = "done" /\ th[t].result = "True" =>
            \A task \in Survivors(t) : <<task, th[t].data>> \in hist.accepted

\* a request of the call that was answered with ERROR, the ERROR completing
\* its task, makes the call return False
C23_ErrorIsFalse ==
    \A t \in OptionThreads :
        th[t].pc = "done" /\ Survivors(t) \cap hist.errored # {} =>
            th[t].result = "False"

\* C23: setOption(name) adds name to the client's option set and returns
\* true only if every connection it sent OPTION_REQ to and did not drop had
\* name in its accepted options when its task completed; a connection that
\* answers the request with ERROR makes it return false.
C23_SetOptionResult ==
    /\ \A t \in OptionThreads :
            th[t].pc = "done" => th[t].data \in client_options
    /\ C23_TrueOnlyIfAccepted
    /\ C23_ErrorIsFalse

\* ================================================================ the pool
\* A Client whose threads call addServer while connections come and go.
NextAdd ==
    \/ \E t \in AddThreads, c \in Conns : AddServerCall(t, c)
    \/ Reconnector
    \/ PollerStart
    \/ PollerWake
    \/ \E c \in Conns : PollerLost(c)

SpecAdd == Init /\ [][NextAdd]_vars

\* The connections of the two lists
Pool == active_connections \o inactive_connections

\* the step of an addServer call: it is refused exactly if its host and
\* port are in the pool, and then changes nothing; otherwise its connection
\* is appended to the inactive list
C24_Step ==
    \A t \in AddThreads :
        th[t].pc = "idle" /\ th'[t].pc = "done" =>
            LET c == th'[t].conn IN
            IF Contains(Pool, c)
            THEN /\ th'[t].result = "ConfigurationError"
                 /\ UNCHANGED <<active_connections, inactive_connections>>
            ELSE /\ th'[t].result = "None"
                 /\ inactive_connections' = Append(inactive_connections, c)
                 /\ UNCHANGED active_connections

\* no host and port is twice in the pool
C24_Unique == \A c \in Conns : Count(Pool, c) <= 1

\* C24: addServer refuses a host/port pair that is in the active or inactive
\* list with ConfigurationError and leaves both lists unchanged; otherwise it
\* appends exactly one fresh connection to the inactive list.  After any
\* sequence of addServer calls, losses and promotions no two pooled
\* connections share a host and port.
C24_AddServerRefusesDuplicates ==
    [][C24_Step]_vars /\ []C24_Unique

\* a call was refused for a connection that had been promoted and lost
C24_Witness ==
    /\ \E t \in AddThreads : th[t].result = "ConfigurationError"
    /\ \E c \in Conns : n_connect[c] > 0 /\ Contains(inactive_connections, c)
    /\ Len(Pool) > 1

\* ------------------------------------------------ BaseClient.getConnection
MaxCalls == 5        \* getConnection calls in one run

\* getConnection called directly.  The call is recorded with the active list
\* it found, the cursor before and after it and the connection it returned
\* (None: NoConnectedServersError).
GetConnection ==
    /\ Len(hist.selected) < MaxCalls
    /\ connection_index' = IF active_connections = <<>> THEN connection_index
                           ELSE NextIndex
    /\ hist' = [hist EXCEPT !.selected = Append(@,
            [active |-> active_connections,
             before |-> connection_index,
             after |-> connection_index',
             conn |-> IF active_connections = <<>> THEN None
                      ELSE active_connections[NextIndex + 1]])]
    /\ UNCHANGED <<codecVars, listVars, wake_pipe, pooled, workerVars,
                   client_options, broadcast_lock, connVars, sockVars,
                   pollVars, rcVars, job, th, notified>>

\* A Client with two servers whose connections are selected round-robin.
NextRoundRobin ==
    \/ \E c \in Conns : AddServer(c)
    \/ Reconnector
    \/ PollerStart
    \/ PollerWake
    \/ \E c \in Conns : PollerLost(c)
    \/ GetConnection

SpecRoundRobin == Init /\ [][NextRoundRobin]_vars

\* The calls i..j found the same active list: it was stable over them.
Stable(i, j) ==
    \A m \in i..j : hist.selected[m].active = hist.selected[i].active

\* how many of the calls i..j returned connection c
Selected(i, j, c) ==
    Cardinality({m \in i..j : hist.selected[m].conn = c})

\* every call returns a member of the active list it found, or fails on an
\* empty list with the cursor unchanged
C25_Member ==
    \A m \in 1..Len(hist.selected) :
        LET call == hist.selected[m] IN
        IF call.active = <<>>
        THEN call.conn = None /\ call.after = call.before
        ELSE Contains(call.active, call.conn)

\* over k consecutive calls with n stable connections every connection is
\* selected floor(k / n) or ceil(k / n) times
C25_Fair ==
    \A i \in 1..Len(hist.selected), j \in 1..Len(hist.selected) :
        i <= j /\ Stable(i, j) /\ hist.selected[i].active # <<>> =>
            LET k == j - i + 1
                n == Len(hist.selected[i].active)
            IN  \A c \in SetOf(hist.selected[i].active) :
                    Selected(i, j, c) \in
                        {k \div n, (k + n - 1) \div n}

\* C25: getConnection always returns a member of the current active list
\* (NoConnectedServersError with the cursor unchanged when it is empty), and
\* over k consecutive calls with n stable active connections each connection
\* is selected floor(k/n) or ceil(k/n) times.
C25_RoundRobin == C25_Member /\ C25_Fair

\* a call failed on an empty list, and the three or more calls after it
\* found the same two connections
C25_Witness ==
    /\ Len(hist.selected) >= 4
    /\ Stable(2, Len(hist.selected))
    /\ Len(hist.selected[2].active) > 1
    /\ hist.selected[1].conn = None

\* -------------------------------------------------- BaseClient.broadcast
\* A Worker with two servers whose threads broadcast ability packets.
NextBroadcast ==
    \/ \E c \in Conns : AddServer(c)
    \/ WorkerReconnector
    \/ PollerStart
    \/ PollerWake
    \/ \E c \in Conns : PollerLost(c)
    \/ \E t \in AbilityThreads, name \in Functions, timeout \in BOOLEAN :
            RegisterFunction(t, name, timeout)
    \/ \E t \in AbilityThreads, name \in Functions : UnRegisterFunction(t, name)
    \/ \E t \in AbilityThreads : Broadcast(t)
    \/ \E t \in AbilityThreads, ok \in BOOLEAN : BroadcastSend(t, ok)

SpecBroadcast == Init /\ [][NextBroadcast]_vars

\* Thread t is past the loop of its broadcast.
Broadcasted(t) ==
    \/ th[t].pc \in {"assign", "next"}
    \/ th[t].pc = "done" /\ th[t].result = "none"

\* the step of one send: the connection is recorded as attempted, the rest
\* of the copy stays to be sent to, no exception reaches the caller, and no
\* connection but this one changes lists
C26_Step ==
    \A t \in AbilityThreads :
        th[t].pc = "send" /\ th'[t] # th[t] =>
            LET c == Head(th[t].todo) IN
            /\ hist'.attempts[t] = Append(hist.attempts[t], c)
            /\ th'[t].todo = Tail(th[t].todo)
            /\ th'[t].result = "none"
            /\ active_connections' \in
                    {active_connections, Remove(active_connections, c)}
            /\ inactive_connections' \in
                    {inactive_connections, Append(inactive_connections, c)}
            /\ hist'.n_faults > hist.n_faults \/ ~connected[c] =>
                    /\ ~Contains(active_connections', c)
                    /\ Contains(inactive_connections', c)

\* a send was attempted on every connection of the copy, in its order
C26_All ==
    \A t \in AbilityThreads :
        /\ th[t].pc = "send" => hist.attempts[t] \o th[t].todo = hist.snapshot[t]
        /\ Broadcasted(t) => hist.attempts[t] = hist.snapshot[t]

\* C26: broadcast(packet) attempts a send on every connection of its copy of
\* the active list; a send failure on one connection marks only that
\* connection lost, is not raised to the caller, and does not prevent the
\* sends to the remaining connections.
C26_BroadcastSendsToAll == [][C26_Step]_vars /\ []C26_All

\* a broadcast to two connections is over, its first send failed and its
\* second connection is still active
C26_Witness ==
    \E t \in AbilityThreads :
        /\ Broadcasted(t)
        /\ Len(hist.snapshot[t]) = 2
        /\ hist.n_faults > 0
        /\ lost_call.conn = hist.snapshot[t][1]
        /\ ~Contains(active_connections, hist.snapshot[t][1])
        /\ Contains(active_connections, hist.snapshot[t][2])
        /\ hist.abilities[hist.snapshot[t][2]] = functions

\* ------------------------------------------------ BaseClient.waitForServer
\* The first pass of the two loops, made under connections_condition: with
\* running cleared the outer loop is not entered and the method returns;
\* with an active connection it returns; otherwise it waits.
WaitForServer(t) ==
    /\ th[t].pc = "idle"
    /\ th' = IF running /\ active_connections = <<>>
             THEN [th EXCEPT ![t].pc = "wait"]
             ELSE [th EXCEPT ![t].pc = "done", ![t].result = "None"]
    /\ UNCHANGED <<codecVars, listVars, wake_pipe, pooled, workerVars,
                   clientVars, connVars, sockVars, pollVars, rcVars, job,
                   notified, hist>>

\* connections_condition.wait(timeout) returns.  A false value (the timeout
\* passed, or the None that Python 2 returns from every wait) raises
\* TimeoutError.  A true value belongs to a notification (of addServer, of a
\* promotion, of _lostConnection, of _shutdown); the inner loop goes on
\* waiting while running holds and the active list is empty, and otherwise
\* the method returns, with running cleared through the end of the outer
\* loop.
WaitForServerWake(t, value) ==
    /\ th[t].pc = "wait"
    /\ value => ~(running /\ active_connections = <<>>)
    /\ Return(t, IF value THEN "None" ELSE "TimeoutError")
    /\ UNCHANGED <<codecVars, listVars, wake_pipe, pooled, workerVars,
                   clientVars, connVars, sockVars, pollVars, rcVars, job,
                   notified, hist>>

\* BaseClientServer.shutdown with BaseClientServer._shutdown: running is
\* cleared, the condition is notified and the wake pipe is written.
Shutdown(t) ==
    /\ th[t].pc = "idle"
    /\ IF running
       THEN /\ running' = FALSE
            /\ wake_pipe' = WakeWrite(wake_pipe)
            /\ Goto(t, "cleanup")
       ELSE /\ Return(t, "ignored")
            /\ UNCHANGED <<running, wake_pipe>>
    /\ UNCHANGED <<functions, codecVars, listVars, pooled, waiting_for_jobs,
                   job_queue, job_lock, clientVars, connVars, sockVars,
                   pollVars, rcVars, job, notified, hist>>

\* A Client with one server, a thread in waitForServer and one that shuts
\* the Client down.
NextWait ==
    \/ \E c \in ConnsE : AddServer(c)
    \/ Reconnector
    \/ PollerStart
    \/ PollerWake
    \/ \E c \in ConnsE : PollerLost(c)
    \/ \E t \in WaitThreads : WaitForServer(t)
    \/ \E t \in WaitThreads, value \in BOOLEAN : WaitForServerWake(t, value)
    \/ \E t \in ShutdownThreads : Shutdown(t)
    \/ \E t \in ShutdownThreads : ShutdownCleanup(t)

SpecWait == Init /\ [][NextWait]_vars

\* C27: waitForServer returns normally only when at least one active
\* connection exists; if none appears in time it fails with TimeoutError,
\* also when the instance is shut down while it waits.
C27_WaitForServer ==
    [][\A t \in WaitThreads :
            th[t].pc # "done" /\ th'[t].pc = "done" =>
                IF active_connections = <<>>
                THEN th'[t].result = "TimeoutError"
                ELSE th'[t].result \in {"None", "TimeoutError"}]_vars

\* =============================================================== the codec
MaxUnits == 2        \* packets and admin responses the peer writes in a run
MaxData == 2         \* bytes of payload of a packet

\* Bytes are numbers 0..255.
NUL == 0
NL == 10             \* "\n"
CR == 13             \* "\r"
DOT == 46            \* "."
Eof == 256           \* not a byte: the end of what a closed socket delivers
Stall == 257         \* not a byte: the peer is silent from here on

\* struct.pack('!i', n) and struct.unpack('!i', b): four bytes, big-endian,
\* two's complement (\div rounds down and % is never negative, so the bytes
\* of a negative n are those of n + 2^32)
Pack4(n) ==
    <<(n \div 16777216) % 256, (n \div 65536) % 256, (n \div 256) % 256,
      n % 256>>

Unpack4(b) ==
    LET top == IF b[1] >= 128 THEN b[1] - 256 ELSE b[1]
    IN  ((top * 256 + b[2]) * 256 + b[3]) * 256 + b[4]

\* Packet.toBinary: struct.pack('!4sii', code, ptype, len(data)) + data
ToBinary(p) == p.code \o Pack4(p.ptype) \o Pack4(Len(p.data)) \o p.data

\* bytes.find: the 0-based index of the first occurrence of pat, or -1
Find(data, pat) ==
    LET at == {i \in 1..(Len(data) - Len(pat) + 1) :
                    SubSeq(data, i, i + Len(pat) - 1) = pat}
    IN  IF at = {} THEN -1
        ELSE (CHOOSE i \in at : \A k \in at : i <= k) - 1

\* bytes.startswith
StartsWith(data, pat) ==
    Len(data) >= Len(pat) /\ SubSeq(data, 1, Len(pat)) = pat

\* data[:x] and data[x:]
Upto(data, x) == SubSeq(data, 1, x)

From(data, x) == SubSeq(data, x + 1, Len(data))

\* AdminRequest.isComplete: where the response ends in data, or -1
EndOfResponse(data) ==
    IF Find(data, <<NL, DOT, NL>>) # -1 THEN Find(data, <<NL, DOT, NL>>) + 3
    ELSE IF Find(data, <<CR, NL, DOT, CR, NL>>) # -1
         THEN Find(data, <<CR, NL, DOT, CR, NL>>) + 5
    ELSE IF StartsWith(data, <<DOT, NL>>) THEN 2
    ELSE IF StartsWith(data, <<DOT, CR, NL>>) THEN 3
    ELSE -1

\* CancelJobAdminRequest.isComplete and VersionAdminRequest.isComplete: the
\* response is one line
EndOfLine(data) ==
    IF Find(data, <<NL>>) # -1 THEN Find(data, <<NL>>) + 1 ELSE -1

\* request.isComplete(data) for a request of the kind: x is the end of the
\* response, data[:x] is stored as the response and data[x:] is returned
IsComplete(kind, data) ==
    LET x == IF kind = "line" THEN EndOfLine(data) ELSE EndOfResponse(data)
    IN  IF x # -1
        THEN [complete |-> TRUE, response |-> Upto(data, x),
              remainder |-> From(data, x)]
        ELSE [complete |-> FALSE, response |-> <<>>, remainder |-> data]

\* A variant of the slice below that keeps nothing of what follows a packet.
RestOfBufferNone(raw_bytes, end) == <<>>

\* readPacket: "raw_bytes = raw_bytes[end:]" after a packet was cut out
RestOfBuffer(raw_bytes, end) == From(raw_bytes, end)

\* What recv can still deliver from the socket: the bytes before the end
\* of the stream or the silence of the peer
Readable(bytes) ==
    LET ends == {i \in 1..Len(bytes) : bytes[i] \in {Eof, Stall}}
    IN  IF ends = {} THEN bytes
        ELSE Upto(bytes, (CHOOSE i \in ends : \A k \in ends : i <= k) - 1)

\* poll reports the socket readable: it has bytes, or the peer closed it
PollIn(bytes) == bytes # <<>> /\ Head(bytes) # Stall

\* _pollLoop calls conn.readPacket(): for a socket that poll reports
\* readable, and again while hasPendingData() holds after a unit of the same
\* connection was dispatched (pending).  The locals start from the two
\* fields.
ReadPacket(c) ==
    /\ polling
    /\ Socket(c) \in conn_dict
    /\ connected[c]
    /\ read_call.conn = None
    /\ \/ read_call.pending = c
       \/ read_call.pending = None /\ PollIn(socket_bytes[c])
    /\ read_call' = [NoCall EXCEPT !.conn = c,
                                   !.raw_bytes = input_buffer[c],
                                   !.need_bytes = need_bytes[c]]
    /\ UNCHANGED <<listVars, wake_pipe, pooled, workerVars, clientVars,
                   connVars, input_buffer, need_bytes, socket_bytes, wire,
                   inbox, srv_handles, srv_jobs, pollVars, rcVars, job, th,
                   notified, hist>>

\* readPacket, "if not raw_bytes or need_bytes": _readRawBytes(4096) blocks
\* until the socket has data and returns n of its bytes, which are added to
\* raw_bytes.
ReadRecv(n) ==
    /\ read_call.conn # None
    /\ read_call.raw_bytes = <<>> \/ read_call.need_bytes
    /\ LET c == read_call.conn IN
        /\ n \in 1..Len(Readable(socket_bytes[c]))
        /\ read_call' = [read_call EXCEPT
                            !.raw_bytes = @ \o Upto(socket_bytes[c], n),
                            !.need_bytes = FALSE]
        /\ socket_bytes' = [socket_bytes EXCEPT ![c] = From(@, n)]
    /\ UNCHANGED <<listVars, wake_pipe, pooled, workerVars, clientVars,
                   connVars, input_buffer, need_bytes, wire, inbox,
                   srv_handles, srv_jobs, pollVars, rcVars, job, th, notified,
                   hist>>

\* readPacket: the segment is empty, the peer has closed the socket.  None
\* is returned, the finally clause stores the two locals, and _pollLoop
\* marks the connection lost and returns.
ReadEof ==
    /\ read_call.conn # None
    /\ read_call.raw_bytes = <<>> \/ read_call.need_bytes
    /\ LET c == read_call.conn IN
        /\ socket_bytes[c] # <<>>
        /\ Head(socket_bytes[c]) = Eof
        /\ input_buffer' = [input_buffer EXCEPT ![c] = read_call.raw_bytes]
        /\ need_bytes' = [need_bytes EXCEPT ![c] = read_call.need_bytes]
        /\ LostConnection(c, TRUE)
    /\ read_call' = NoCall
    /\ polling' = FALSE
    /\ UNCHANGED <<wake_pipe, pooled, workerVars, clientVars, connVars,
                   socket_bytes, wire, inbox, srv_handles, srv_jobs,
                   conn_dict, rcVars, job, th, notified, hist>>

\* The locals of the call after "if admin is None": a first byte 0 is the
\* start of a packet, any other the start of an admin response, whose
\* request is popped from admin_requests (failed: the list is empty and
\* pop(0) raises IndexError).
Disambiguate(call, requests) ==
    IF call.admin # "None" THEN [call |-> call, failed |-> FALSE]
    ELSE IF Head(call.raw_bytes) = NUL
         THEN [call |-> [call EXCEPT !.admin = "no"], failed |-> FALSE]
    ELSE IF requests = <<>> THEN [call |-> call, failed |-> TRUE]
    ELSE [call |-> [call EXCEPT !.admin = "yes",
                                !.admin_request = Head(requests)],
          failed |-> FALSE]

\* The locals after "if code is None and length >= 12": the header is
\* unpacked once
Header(call) ==
    IF call.code = <<>> /\ Len(call.raw_bytes) >= 12
    THEN [call EXCEPT !.code = SubSeq(call.raw_bytes, 1, 4),
                      !.ptype = Unpack4(SubSeq(call.raw_bytes, 5, 8)),
                      !.datalen = Unpack4(SubSeq(call.raw_bytes, 9, 12))]
    ELSE call

\* One pass of the loop of readPacket after the read: whether a value is
\* returned (returned, value; else need_bytes is set), whether pop(0)
\* raised, and the locals then
Parse(call0, requests) ==
    LET d == Disambiguate(call0, requests)
        call == d.call
    IN  IF d.failed
        THEN [returned |-> FALSE, value |-> None, raised |-> TRUE,
              call |-> call]
        ELSE IF call.admin = "yes"
        THEN LET r == IsComplete(call.admin_request.kind, call.raw_bytes)
             IN  [returned |-> r.complete,
                  value |-> [kind |-> "admin", id |-> call.admin_request.id,
                             response |-> r.response],
                  raised |-> FALSE,
                  call |-> [call EXCEPT !.raw_bytes = r.remainder,
                                        !.need_bytes = ~r.complete]]
        ELSE LET h == Header(call)
                 end == 12 + h.datalen
             IN  IF Len(h.raw_bytes) >= h.datalen + 12
                 THEN [returned |-> TRUE,
                       value |-> [kind |-> "packet", code |-> h.code,
                                  ptype |-> h.ptype,
                                  data |-> SubSeq(h.raw_bytes, 13, end)],
                       raised |-> FALSE,
                       call |-> [h EXCEPT !.raw_bytes = RestOfBuffer(@, end)]]
                 ELSE [returned |-> FALSE, value |-> None, raised |-> FALSE,
                       call |-> [h EXCEPT !.need_bytes = TRUE]]

\* hasPendingData() after a unit of connection c was dispatched: the
\* connection whose loop in _pollLoop goes on with another readPacket
HasPendingData(c, buffer) == IF buffer # <<>> THEN c ELSE None

\* readPacket: one pass of the loop with data to look at.  A packet or a
\* completed admin request is returned and dispatched (recorded), and the
\* loop of _pollLoop goes on while hasPendingData() holds, unless the handler
\* raises: its exception leaves _pollLoop, as does an IndexError of
\* readPacket.  In every case the finally clause stores raw_bytes and
\* need_bytes.  With no unit yet the loop of readPacket goes on to read.
ReadDispatch(raises) ==
    /\ read_call.conn # None
    /\ ~(read_call.raw_bytes = <<>> \/ read_call.need_bytes)
    /\ LET c == read_call.conn
           r == Parse(read_call, admin_requests[c])
           over == r.raised \/ r.returned
       IN  /\ raises => r.returned
           /\ admin_requests' = [admin_requests EXCEPT ![c] =
                IF read_call.admin = "None" /\ r.call.admin = "yes" THEN Tail(@)
                ELSE @]
           /\ read_call' =
                IF ~over THEN r.call
                ELSE IF r.raised \/ raises THEN NoCall
                ELSE [NoCall EXCEPT
                        !.pending = HasPendingData(c, r.call.raw_bytes)]
           /\ input_buffer' = [input_buffer EXCEPT ![c] =
                                    IF over THEN r.call.raw_bytes ELSE @]
           /\ need_bytes' = [need_bytes EXCEPT ![c] =
                                    IF over THEN r.call.need_bytes ELSE @]
           /\ polling' = ~(r.raised \/ raises)
           /\ hist' = IF r.returned
                      THEN [hist EXCEPT !.read = Append(@, r.value)]
                      ELSE hist
    /\ UNCHANGED <<listVars, wake_pipe, pooled, workerVars, clientVars,
                   connected, state, taskVars, echo_conditions, socket_bytes,
                   wire, inbox, srv_handles, srv_jobs, conn_dict, rcVars, job,
                   th, notified>>

\* The same with handlers that return
ReadParse == ReadDispatch(FALSE)

\* ------------------------------------------------- the peer of the codec
\* The packets the peer sends: a magic code of four bytes of which the first
\* is 0, a type, and a payload that may hold NUL bytes.
Codes == {<<NUL, 1, 1, 1>>, <<NUL, 1, 1, 2>>}

PTypes == {1, 2}

Payloads2 == UNION {[1..n -> {NUL, DOT}] : n \in 0..MaxData}

\* The peer writes the bytes of a packet to the socket.
PeerPacket(c, code, ptype, data) ==
    /\ connected[c]
    /\ Len(hist.sent) < MaxUnits
    /\ Readable(socket_bytes[c]) = socket_bytes[c]
    /\ LET p == [kind |-> "packet", code |-> code, ptype |-> ptype,
                 data |-> data]
       IN  /\ socket_bytes' = [socket_bytes EXCEPT ![c] = @ \o ToBinary(p)]
           /\ hist' = [hist EXCEPT !.sent = Append(@, p)]
    /\ UNCHANGED <<listVars, wake_pipe, pooled, workerVars, clientVars,
                   connVars, input_buffer, need_bytes, read_call, wire, inbox,
                   srv_handles, srv_jobs, pollVars, rcVars, job, th, notified>>

\* Connection.sendAdminRequest: the request is appended to admin_requests
\* and its command is sent; the caller then waits for the response.  A
\* request is its number and its kind: "line" for the two classes whose
\* response is one line, "status" for the others.
SendAdminRequest(c, kind) ==
    /\ connected[c]
    /\ hist.n_requests < MaxUnits
    /\ admin_requests' = [admin_requests EXCEPT ![c] =
            Append(@, [id |-> hist.n_requests + 1, kind |-> kind])]
    /\ hist' = [hist EXCEPT !.n_requests = @ + 1,
                            !.unanswered = Append(@, [id |-> hist.n_requests + 1,
                                                      kind |-> kind])]
    /\ UNCHANGED <<listVars, wake_pipe, pooled, workerVars, clientVars,
                   connected, state, taskVars, echo_conditions, codecVars,
                   sockVars, pollVars, rcVars, job, th, notified>>

\* The responses of the peer: to a "status" kind of request lines that end
\* with a line of one dot, to a "line" kind of request one line.
Responses(kind) ==
    IF kind = "line" THEN {<<97, NL>>}
    ELSE {<<DOT, NL>>, <<97, NL, DOT, NL>>}

\* The peer writes the response to the oldest request it has not answered.
PeerAdminResponse(c, response) ==
    /\ connected[c]
    /\ Len(hist.sent) < MaxUnits
    /\ Readable(socket_bytes[c]) = socket_bytes[c]
    /\ hist.unanswered # <<>>
    /\ response \in Responses(Head(hist.unanswered).kind)
    /\ socket_bytes' = [socket_bytes EXCEPT ![c] = @ \o response]
    /\ hist' = [hist EXCEPT
                    !.unanswered = Tail(@),
                    !.sent = Append(@, [kind |-> "admin",
                                        id |-> Head(hist.unanswered).id,
                                        response |-> response])]
    /\ UNCHANGED <<listVars, wake_pipe, pooled, workerVars, clientVars,
                   connVars, input_buffer, need_bytes, read_call, wire, inbox,
                   srv_handles, srv_jobs, pollVars, rcVars, job, th, notified>>

\* The peer closes the socket after what it has written.
PeerClose(c) ==
    /\ connected[c]
    /\ Readable(socket_bytes[c]) = socket_bytes[c]
    /\ socket_bytes' = [socket_bytes EXCEPT ![c] = Append(@, Eof)]
    /\ UNCHANGED <<listVars, wake_pipe, pooled, workerVars, clientVars,
                   connVars, input_buffer, need_bytes, read_call, wire, inbox,
                   srv_handles, srv_jobs, pollVars, rcVars, job, th, notified,
                   hist>>

\* The peer goes down while it writes a packet: n bytes of the packet reach
\* the socket, not all of them, and the socket is closed.
PeerCrash(c, code, ptype, data, n) ==
    /\ connected[c]
    /\ Readable(socket_bytes[c]) = socket_bytes[c]
    /\ LET bytes == ToBinary([code |-> code, ptype |-> ptype, data |-> data])
       IN  /\ n \in 1..(Len(bytes) - 1)
           /\ socket_bytes' = [socket_bytes EXCEPT ![c] =
                                    Append(@ \o Upto(bytes, n), Eof)]
    /\ UNCHANGED <<listVars, wake_pipe, pooled, workerVars, clientVars,
                   connVars, input_buffer, need_bytes, read_call, wire, inbox,
                   srv_handles, srv_jobs, pollVars, rcVars, job, th, notified,
                   hist>>

\* The peer (or the network) falls silent while a packet is on its way: n
\* bytes of the packet reach the socket, not all of them, and no more follow.
PeerStall(c, code, ptype, data, n) ==
    /\ connected[c]
    /\ Readable(socket_bytes[c]) = socket_bytes[c]
    /\ LET bytes == ToBinary([code |-> code, ptype |-> ptype, data |-> data])
       IN  /\ n \in 1..(Len(bytes) - 1)
           /\ socket_bytes' = [socket_bytes EXCEPT ![c] =
                                    Append(@ \o Upto(bytes, n), Stall)]
    /\ UNCHANGED <<listVars, wake_pipe, pooled, workerVars, clientVars,
                   connVars, input_buffer, need_bytes, read_call, wire, inbox,
                   srv_handles, srv_jobs, pollVars, rcVars, job, th, notified,
                   hist>>

\* One connection that receives packets.
NextCodec ==
    \/ \E c \in ConnsE : AddServer(c)
    \/ Reconnector
    \/ PollerStart
    \/ PollerWake
    \/ \E c \in ConnsE, code \in Codes, ptype \in PTypes, data \in Payloads2 :
            PeerPacket(c, code, ptype, data)
    \/ \E c \in ConnsE : ReadPacket(c)
    \/ \E n \in 1..(MaxUnits * (12 + MaxData)) : ReadRecv(n)
    \/ ReadParse

SpecCodec == Init /\ [][NextCodec]_vars

\* The bytes of a sequence of units as the peer wrote them
RECURSIVE EncodeAll(_)
EncodeAll(units) ==
    IF units = <<>> THEN <<>>
    ELSE (IF Head(units).kind = "packet" THEN ToBinary(Head(units))
          ELSE Head(units).response) \o EncodeAll(Tail(units))

\* The bytes connection c has received or can receive and that no returned
\* unit holds: the buffer (the local one during a call) and then the socket
Undelivered(c) ==
    (IF read_call.conn = c THEN read_call.raw_bytes ELSE input_buffer[c])
        \o socket_bytes[c]

IsPrefix(s, t) == Len(s) <= Len(t) /\ SubSeq(t, 1, Len(s)) = s

\* C29: the packets that successive readPacket calls have returned are, in
\* order, equal to the first packets the peer encoded with toBinary, however
\* recv cuts the stream; the bytes of the packets returned followed by the
\* bytes still buffered or unread are exactly the bytes sent (none lost, none
\* twice), and once nothing is buffered or unread every packet sent has been
\* returned
C29_CodecRoundTrip ==
    \A c \in ConnsE :
        /\ IsPrefix(hist.read, hist.sent)
        /\ EncodeAll(hist.read) \o Undelivered(c) = EncodeAll(hist.sent)
        /\ Undelivered(c) = <<>> => hist.read = hist.sent

\* Two packets were sent, one recv delivered the first with a part of the
\* header of the second, the first was returned with its NUL payload and the
\* part of the header is kept for the next call.
C29_Witness ==
    /\ Len(hist.sent) = 2
    /\ Len(hist.read) = 1
    /\ \E i \in DOMAIN hist.read[1].data : hist.read[1].data[i] = NUL
    /\ read_call.conn = None
    /\ Len(input_buffer[1]) \in 1..11

\* One connection that receives admin responses and packets in any order.
NextAdmin ==
    \/ \E c \in ConnsE : AddServer(c)
    \/ Reconnector
    \/ PollerStart
    \/ PollerWake
    \/ \E c \in ConnsE, kind \in {"status", "line"} : SendAdminRequest(c, kind)
    \/ \E c \in ConnsE, response \in Responses("status") \cup Responses("line") :
            PeerAdminResponse(c, response)
    \/ \E c \in ConnsE, code \in Codes : PeerPacket(c, code, 1, <<NUL>>)
    \/ \E c \in ConnsE : ReadPacket(c)
    \/ \E n \in 1..(MaxUnits * (12 + MaxData)) : ReadRecv(n)
    \/ ReadParse

SpecAdmin == Init /\ [][NextAdmin]_vars

IsPacket(unit) == unit.kind = "packet"

IsAdmin(unit) == unit.kind = "admin"

\* C30: whatever the order of admin responses and packets in the stream and
\* however recv cuts it, the i-th admin request returned by readPacket is the
\* i-th request sent and holds the i-th admin response of the peer, and the
\* packets returned are, in order, equal to the first packets sent
C30_PerUnitDisambiguation ==
    /\ IsPrefix(SelectSeq(hist.read, IsAdmin), SelectSeq(hist.sent, IsAdmin))
    /\ IsPrefix(SelectSeq(hist.read, IsPacket), SelectSeq(hist.sent, IsPacket))

\* One connection that receives packets from a peer that may close the
\* socket, with admin requests outstanding, and a thread that shuts the
\* Client down.
NextDisconnect ==
    \/ \E c \in ConnsE : AddServer(c)
    \/ Reconnector
    \/ PollerStart
    \/ PollerWake
    \/ \E c \in ConnsE : SendAdminRequest(c, "status")
    \/ \E c \in ConnsE : PeerPacket(c, <<NUL, 1, 1, 1>>, 1, <<NUL>>)
    \/ \E c \in ConnsE : PeerClose(c)
    \/ \E c \in ConnsE, n \in {1, 12} :
            PeerCrash(c, <<NUL, 1, 1, 1>>, 1, <<NUL>>, n)
    \/ \E c \in ConnsE : ReadPacket(c)
    \/ \E n \in 1..(MaxUnits * (12 + MaxData)) : ReadRecv(n)
    \/ ReadParse
    \/ ReadEof
    \/ \E t \in ShutdownThreads : Shutdown(t)
    \/ \E t \in ShutdownThreads : ShutdownCleanup(t)

SpecDisconnect == Init /\ [][NextDisconnect]_vars

\* The step is a call of disconnect on connection c that is not followed by
\* a connect that succeeds: _cleanup disconnects the active connections,
\* and reconnect disconnects before a connect that raises.
Disconnects(c) ==
    \/ /\ \E t \in ShutdownThreads : th[t].pc = "cleanup" /\ th'[t].pc = "done"
       /\ Contains(active_connections, c)
    \/ /\ rc_pc = "idle" /\ rc_pc' = "idle"
       /\ rc_todo # <<>> /\ rc_todo' = Tail(rc_todo)
       /\ Head(rc_todo) = c

\* The fields that _init assigns have the values of a new Connection.
InitFields(c) ==
    /\ ~connected[c]
    /\ related_jobs[c] = NoJobs
    /\ pending_tasks[c] = <<>>
    /\ admin_requests[c] = <<>>
    /\ echo_conditions[c] = NoEcho
    /\ conn_options[c] = {}
    /\ state[c] = "INIT"

ErrorHandled(c) ==
    /\ CanRead(c, "ERROR")
    /\ inbox'[c] = Tail(inbox[c])
    /\ rc_todo' = rc_todo
    /\ pending_tasks[c] # <<>>

\* handleError removes and signals the head of the FIFO of the connection
\* and nothing else: the other tasks stay queued and unsignalled, the
\* related-jobs maps are as they were.
C31_OnlyTheHead ==
    [][\A c \in Conns : ErrorHandled(c) =>
            /\ pending_tasks' = [pending_tasks EXCEPT ![c] = Tail(@)]
            /\ notified' = notified \cup {Head(pending_tasks[c])}
            /\ related_jobs' = related_jobs
            /\ job' = job]_vars

\* The submitJob call whose task an ERROR unblocked goes on from its wait
\* with a failure: the job has no handle and the call does not return with
\* success.
C31_CallerSeesFailure ==
    [][\A t \in SubmitThreads :
            (/\ th[t].pc = "wait"
             /\ th'[t].pc # "wait"
             /\ th[t].task \in hist.unblocked)
            => /\ job[t].handle = None
               /\ th'[t].pc = "loop"]_vars

\* C31: an ERROR packet unblocks exactly one pending task, the head of the
\* FIFO of its connection, leaves the other tasks and the related-jobs map
\* alone, and the submitJob call it unblocked sees a failure (no handle)
C31_ErrorUnblocksOne == C31_OnlyTheHead /\ C31_CallerSeesFailure

\* ------------------------------------------------------------------ C32
\* A call of shutdown made after an earlier call has returned.
SecondShutdown(t) ==
    /\ \A u \in ShutdownThreads : th[u].pc = "done"
    /\ Shutdown(t)

\* A Client with one server that sends packets, the Poller reading them with
\* readPacket, a thread that shuts the Client down and one that calls
\* shutdown once more afterwards.
NextClose ==
    \/ \E c \in ConnsE : AddServer(c)
    \/ Reconnector
    \/ PollerStart
    \/ PollerWake
    \/ \E c \in ConnsE : PeerPacket(c, <<NUL, 1, 1, 1>>, 1, <<NUL>>)
    \/ \E c \in ConnsE, n \in {1, 12} :
            PeerStall(c, <<NUL, 1, 1, 1>>, 1, <<NUL>>, n)
    \/ \E c \in ConnsE : ReadPacket(c)
    \/ \E n \in 1..(MaxUnits * (12 + MaxData)) : ReadRecv(n)
    \/ ReadParse
    \/ \E t \in ShutdownThreads : Shutdown(t)
    \/ \E t \in ShutdownThreads : ShutdownCleanup(t)
    \/ \E t \in StopThreads : SecondShutdown(t)

SpecClose == Init /\ [][NextClose]_vars

\* SpecClose with the scheduling the threads of the program get: the
\* Reconnector, the Poller and the thread in shutdown take the steps they can
\* take, and recv returns when the socket has bytes.  Nothing is assumed of
\* the peer.
FairClose ==
    /\ SpecClose
    /\ WF_vars(Reconnector)
    /\ WF_vars(PollerStart)
    /\ WF_vars(PollerWake)
    /\ WF_vars(\E c \in ConnsE : ReadPacket(c))
    /\ WF_vars(\E n \in 1..(MaxUnits * (12 + MaxData)) : ReadRecv(n))
    /\ WF_vars(ReadParse)
    /\ \A t \in ShutdownThreads : WF_vars(ShutdownCleanup(t))

\* shutdown terminates: a call that has told the threads to exit returns
C32_Terminates ==
    \A t \in ShutdownThreads : (th[t].pc = "cleanup") ~> (th[t].pc = "done")

\* When _cleanup returns the Poller and the Reconnector have exited, every
\* connection that was active is disconnected, both lists are empty and the
\* wake pipe is closed.
C32_CleanedUp ==
    [][\A t \in ShutdownThreads :
            (th[t].pc = "cleanup" /\ th'[t].pc = "done") =>
                /\ ~running /\ ~polling /\ rc_pc = "idle"
                /\ \A c \in Conns :
                        Contains(active_connections, c) => ~connected'[c]
                /\ active_connections' = <<>>
                /\ inactive_connections' = <<>>
                /\ wake_pipe' = Closed]_vars

\* A shutdown call made when running is false is ignored and changes nothing.
C32_SecondIgnored ==
    [][\A t \in Threads :
            (~running /\ th[t].pc = "idle" /\ th'[t].pc # "idle") =>
                /\ th'[t].pc = "done" /\ th'[t].result = "ignored"
                /\ UNCHANGED <<listVars, wake_pipe, running, connVars,
                               pollVars, rcVars, codecVars>>]_vars

\* C32: shutdown terminates with the Poller and the Reconnector exited, the
\* active connections disconnected, both lists empty and the wake pipe
\* closed, and a second call is ignored and changes nothing
C32_ShutdownTerminates ==
    C32_Terminates /\ C32_CleanedUp /\ C32_SecondIgnored

\* ------------------------------------------------------------------ C33
\* The packets whose handlers start with packet.getJob()
JobPackets ==
    {"WORK_DATA", "WORK_WARNING", "WORK_STATUS", "WORK_COMPLETE", "WORK_FAIL",
     "WORK_EXCEPTION", "STATUS_RES"}

\* One submitJob caller and one server that sends the seven packets, also
\* for a job it has already reported complete.
NextUnknown ==
    \/ \E c \in ConnsE : AddServer(c)
    \/ Reconnector
    \/ PollerStart
    \/ PollerWake
    \/ \E c \in ConnsE : HandleJobCreated(c)
    \/ \E c \in ConnsE : HandleWorkData(c)
    \/ \E c \in ConnsE : HandleWorkWarning(c)
    \/ \E c \in ConnsE : HandleWorkStatus(c)
    \/ \E c \in ConnsE : HandleStatusRes(c)
    \/ \E c \in ConnsE : HandleWorkComplete(c)
    \/ \E c \in ConnsE : HandleWorkFail(c)
    \/ \E c \in ConnsE : HandleWorkException(c)
    \/ \E c \in ConnsE : ServerJobCreated(c)
    \/ \E c \in ConnsE, h \in Handles, arg \in {None, 1}, ptype \in JobPackets :
            ServerWork(c, h, ptype, arg)
    \/ SubmitLoop(1)
    \/ SubmitGetConnection(1)
    \/ SubmitAppend(1)
    \/ \E ok \in BOOLEAN : SubmitSend(1, ok)
    \/ SubmitWait(1)

SpecUnknown == Init /\ [][NextUnknown]_vars

\* The step is the handling of a packet of connection c whose handle is not
\* in the related-jobs map of c.
UnknownJobHandled(c) ==
    /\ polling
    /\ Socket(c) \in conn_dict
    /\ connected[c]
    /\ inbox[c] # <<>>
    /\ Head(inbox[c]).ptype \in JobPackets
    /\ related_jobs[c][Head(inbox[c]).data] = None
    /\ inbox'[c] = Tail(inbox[c])
    /\ rc_todo' = rc_todo

\* C33: a WORK_DATA, WORK_WARNING, WORK_STATUS, WORK_COMPLETE, WORK_FAIL,
\* WORK_EXCEPTION or STATUS_RES packet with a handle that is not in the
\* related-jobs map of its connection raises UnknownJobError: no job, no
\* related-jobs map and no pending-task FIFO changes, the exception ends
\* _pollLoop and is caught in _doPollLoop (the Poller is still running and
\* starts _pollLoop again), and the connection stays in the active list
C33_UnknownJobChangesNothing ==
    [][\A c \in Conns : UnknownJobHandled(c) =>
            /\ job' = job
            /\ related_jobs' = related_jobs
            /\ pending_tasks' = pending_tasks
            /\ hist'.terminals = hist.terminals
            /\ active_connections' = active_connections
            /\ inactive_connections' = inactive_connections
            /\ connected' = connected
            /\ running' = running
            /\ ~polling'
            /\ (running /\ active_connections # <<>>) => (ENABLED PollerStart)']_vars

\* The server reported the job complete and then sent a second packet for
\* its handle, which raised UnknownJobError; the Poller is polling the
\* connection again.
C33_Witness ==
    /\ hist.n_unknown = 1
    /\ hist.n_work = 2
    /\ job[1].complete
    /\ inbox[1] = <<>>
    /\ polling
    /\ Contains(active_connections, 1)

\* ------------------------------------------------------------------ C34
\* isinstance(task, OptionReqTask)
IsOptionReqTask(task) == task >= 1000

\* The step is the handling of a packet of the type by connection c with a
\* task at the head of the FIFO.
ResponseHandled(c, ptype) ==
    /\ CanRead(c, ptype)
    /\ inbox'[c] = Tail(inbox[c])
    /\ rc_todo' = rc_todo
    /\ pending_tasks[c] # <<>>

\* The handler refused the task: nothing is set, the connection is marked
\* lost and GearmanError leaves _pollLoop.
Refused(c) ==
    /\ job' = job
    /\ related_jobs' = related_jobs
    /\ conn_options' = conn_options
    /\ notified' = notified
    /\ ~Contains(active_connections', c)
    /\ Contains(inactive_connections', c)
    /\ ~polling'

\* JOB_CREATED: a submit-job task gets the handle of the packet and the
\* related-jobs entry, a task of the other type is refused.
C34_JobCreated ==
    [][\A c \in Conns : ResponseHandled(c, "JOB_CREATED") =>
            LET task == Head(pending_tasks[c])
                p == Head(inbox[c])
            IN  IF IsOptionReqTask(task) THEN Refused(c)
                ELSE /\ job'[TaskJob(task)].handle = p.data
                     /\ related_jobs'[c][p.data] = TaskJob(task)
                     /\ conn_options' = conn_options
                     /\ task \in notified']_vars

\* OPTION_RES: an option task adds the option of the packet to the options
\* of the connection, a task of the other type is refused.
C34_OptionRes ==
    [][\A c \in Conns : ResponseHandled(c, "OPTION_RES") =>
            LET task == Head(pending_tasks[c])
                p == Head(inbox[c])
            IN  IF ~IsOptionReqTask(task) THEN Refused(c)
                ELSE /\ conn_options' =
                            [conn_options EXCEPT ![c] = @ \cup {p.data}]
                     /\ job' = job
                     /\ related_jobs' = related_jobs
                     /\ task \in notified']_vars

\* C34: JOB_CREATED is applied to a submit-job task only and OPTION_RES to an
\* option task only; with a task of the other type at the head of the FIFO
\* the handler sets no handle, adds no related-jobs entry and no option,
\* marks the connection lost and fails with GearmanError
C34_ResponsesMatchTaskType == C34_JobCreated /\ C34_OptionRes

\* A JOB_CREATED met the option task of setOption at the head of the FIFO
\* (setOption appended its task before submitJob did and sent its request
\* after): the job has no handle and the connection is in the inactive list.
C34_Witness ==
    /\ \E pair \in hist.misrouted :
            IsOptionReqTask(pair[1]) /\ ~IsOptionReqTask(pair[2])
    /\ hist.unblocked = {}
    /\ hist.n_faults = 0
    /\ job[1].handle = None
    /\ Contains(inactive_connections, 1)
    /\ lost_call.conn = 1
\* ===================================== exceptions in the background threads
\* The peer resets connection c: after what it sent before, recv raises
\* socket.error (ECONNRESET).
ServerReset(c) ==
    /\ connected[c]
    /\ MayFail
    /\ \A i \in 1..Len(inbox[c]) : inbox[c][i].ptype \notin {"EOF", "RST", "ERR"}
    /\ inbox' = [inbox EXCEPT ![c] = Append(@, Packet("RST", None, None))]
    /\ hist' = Fault(hist)
    /\ UNCHANGED <<codecVars, listVars, wake_pipe, pooled, workerVars,
                   clientVars, connVars, wire, srv_handles, srv_jobs,
                   pollVars, rcVars, job, th, notified>>

\* _pollLoop -> readPacket -> recv raises socket.error.  The exception leaves
\* _pollLoop and is caught by "except socket.error" in _doPollLoop, which
\* calls nothing; the socket stays in the error state.
PollerRecvError(c) ==
    /\ CanRead(c, "RST")
    /\ inbox' = [inbox EXCEPT ![c] = <<Packet("ERR", None, None)>> \o Tail(@)]
    /\ polling' = FALSE
    /\ UNCHANGED <<codecVars, listVars, wake_pipe, pooled, workerVars,
                   clientVars, connVars, wire, srv_handles, srv_jobs,
                   conn_dict, rcVars, job, th, notified, hist>>

\* _pollLoop, for a socket in the error state: poll reports POLLERR or
\* POLLHUP ("Received error event"), or POLLIN and recv returns no data
\* ("Received no data"); either way _lostConnection is called and _pollLoop
\* returns.
PollerErrorEvent(c) ==
    /\ CanRead(c, "ERR")
    /\ LostConnection(c, TRUE)
    /\ polling' = FALSE
    /\ UNCHANGED <<codecVars, wake_pipe, pooled, workerVars, clientVars,
                   connVars, sockVars, conn_dict, rcVars, job, th, notified,
                   hist>>

\* A Worker with one server whose socket may be reset or closed, sends that
\* may fail in the handlers and in the on-connect hook, connects that may
\* fail, and two threads in getJob.
NextActors ==
    \/ \E c \in ConnsE : AddServer(c)
    \/ WorkerReconnector
    \/ PollerStart
    \/ PollerWake
    \/ \E c \in ConnsE : PollerEof(c)
    \/ \E c \in ConnsE : PollerRecvError(c)
    \/ \E c \in ConnsE : PollerErrorEvent(c)
    \/ \E c \in ConnsE, ok \in BOOLEAN : HandleNoop(c, ok)
    \/ \E c \in ConnsE, ok \in BOOLEAN : HandleNoJob(c, ok)
    \/ \E c \in ConnsE, bad \in ConnsE \cup {None} : HandleJobAssign(c, bad)
    \/ \E c \in ConnsE, bad \in ConnsE \cup {None} :
            HandleJobAssignUnique(c, bad)
    \/ \E c \in ConnsE, uniq \in BOOLEAN : ServerJobAssign(c, uniq)
    \/ \E c \in ConnsE : ServerNoJob(c)
    \/ \E c \in ConnsE : ServerNoop(c)
    \/ \E c \in ConnsE : ServerClose(c)
    \/ \E c \in ConnsE : ServerReset(c)
    \/ \E t \in GetJobThreads, bad \in ConnsE \cup {None} : GetJobEnter(t, bad)
    \/ \E t \in GetJobThreads : GetJobTake(t)

SpecActors == Init /\ [][NextActors]_vars

\* Both background threads are scheduled: each takes the step it can take.
FairActors ==
    /\ SpecActors
    /\ WF_vars(PollerStart)
    /\ WF_vars(PollerWake)
    /\ \A c \in ConnsE :
        /\ WF_vars(PollerEof(c))
        /\ WF_vars(PollerRecvError(c))
        /\ WF_vars(PollerErrorEvent(c))
        /\ WF_vars(\E ok \in BOOLEAN : HandleNoop(c, ok))
        /\ WF_vars(\E ok \in BOOLEAN : HandleNoJob(c, ok))
        /\ WF_vars(\E bad \in ConnsE \cup {None} : HandleJobAssign(c, bad))
        /\ WF_vars(\E bad \in ConnsE \cup {None} :
                        HandleJobAssignUnique(c, bad))
    /\ WF_vars(RcSnapshot)
    /\ WF_vars(\E ok \in BOOLEAN : RcReconnect(ok))
    /\ WF_vars(\E ok \in BOOLEAN : WkOnConnect(ok))
    /\ WF_vars(WkPromote)
    /\ WF_vars(\E bad \in ConnsE \cup {None} : WkOnActive(bad))

\* A step of the Poller in which an exception left _pollLoop: recv raised,
\* or a send of a handler failed
PollerRaised ==
    /\ polling /\ ~polling'
    /\ \/ \E c \in ConnsE : /\ CanRead(c, "RST")
                            /\ inbox'[c] # <<>>
                            /\ Head(inbox'[c]).ptype = "ERR"
       \/ /\ hist'.n_faults > hist.n_faults
          /\ \E c \in ConnsE : inbox[c] # <<>> /\ inbox'[c] = Tail(inbox[c])

\* A step of the Reconnector in which reconnect() or the on-connect hook
\* raised
ReconnectorRaised ==
    /\ hist'.n_faults > hist.n_faults
    /\ \/ rc_pc = "idle" /\ rc_todo # <<>> /\ rc_todo' = Tail(rc_todo)
       \/ rc_pc = "onconnect" /\ rc_pc' = "idle"

\* the socket of c raised in recv and c has not been marked lost since
IoError(c) ==
    /\ Contains(active_connections, c)
    /\ inbox[c] # <<>>
    /\ Head(inbox[c]).ptype = "ERR"

\* C35 (Poller): an exception that leaves _pollLoop leaves the Poller at the
\* head of its loop with job_lock released, ready to poll again while the
\* instance runs and a connection is active.
C35_PollerGoesOn ==
    PollerRaised =>
        /\ job_lock' = None
        /\ (running' /\ active_connections' # <<>>) => (ENABLED PollerStart)'

\* C35 (Reconnector): a reconnect or an on-connect hook that raised leaves
\* the connection inactive and the Reconnector in its loop, ready to go on
\* with the next connection of its snapshot or to take a new snapshot.
C35_ReconnectorGoesOn ==
    ReconnectorRaised =>
        /\ rc_pc' = "idle"
        /\ broadcast_lock' = None
        /\ inactive_connections' # <<>>
        /\ running' => (rc_todo' # <<>> \/ (ENABLED RcSnapshot)')

\* C35 (I/O error): a connection whose socket raised in recv is marked lost,
\* and a connection marked lost whose peer can be reached is reconnected.
C35_ErrorLeadsToRetry ==
    \A c \in ConnsE :
        /\ IoError(c) ~> Contains(inactive_connections, c)
        /\ (Contains(inactive_connections, c) /\ PeerReachable(c))
                ~> (rc_conn = c /\ connected[c])

NextDispatch ==
    \/ \E c \in ConnsE : AddServer(c)
    \/ Reconnector
    \/ PollerStart
    \/ PollerWake
    \/ \E c \in ConnsE, code \in Codes, data \in {<<>>, <<NUL>>} :
            PeerPacket(c, code, 1, data)
    \/ \E c \in ConnsE : ReadPacket(c)
    \/ \E n \in 1..(MaxUnits * (12 + MaxData)) : ReadRecv(n)
    \/ \E raises \in BOOLEAN : ReadDispatch(raises)

SpecDispatch == Init /\ [][NextDispatch]_vars

\* The Poller and the Reconnector are scheduled; the peer is free to stay
\* silent.
FairDispatch ==
    /\ SpecDispatch
    /\ WF_vars(Reconnector)
    /\ WF_vars(PollerStart)
    /\ WF_vars(PollerWake)
    /\ WF_vars(\E c \in ConnsE : ReadPacket(c))
    /\ WF_vars(\E n \in 1..(MaxUnits * (12 + MaxData)) : ReadRecv(n))
    /\ WF_vars(\E raises \in BOOLEAN : ReadDispatch(raises))

\* input_buffer of connection c starts with a complete packet that no
\* readPacket call is working on
BufferedUnit(c) ==
    /\ Contains(active_connections, c)
    /\ read_call.conn = None
    /\ input_buffer[c] # <<>>
    /\ Parse([NoCall EXCEPT !.conn = c, !.raw_bytes = input_buffer[c]],
             admin_requests[c]).returned

\* C36: a complete unit in the read buffer of an active connection is
\* dispatched without any further byte from the peer: the buffer does not
\* keep it for ever.
C36_BufferedUnitsDispatched ==
    \A c \in ConnsE : BufferedUnit(c) ~> ~BufferedUnit(c)
\* =================================================== attempts of submitJob
\* C37: within one submitJob call every connection is attempted at most
\* once: the attempts made so far are as many as the connections attempted.
C37_OneAttemptPerConnection ==
    \A t \in SubmitThreads : th[t].n <= Cardinality(th[t].attempted)
\* ==================================================== the partition of the pool
\* A Client with two servers that stay silent and may close the socket, a
\* thread in submitJob whose sends fail and whose waits time out, and a
\* thread that shuts the Client down.
NextPartition ==
    \/ \E c \in Conns : AddServer(c)
    \/ Reconnector
    \/ PollerStart
    \/ PollerWake
    \/ \E c \in Conns : PollerLost(c)
    \/ \E c \in Conns : PollerEof(c)
    \/ \E c \in Conns : ServerClose(c)
    \/ SubmitLoop(1)
    \/ SubmitGetConnection(1)
    \/ SubmitAppend(1)
    \/ \E ok \in BOOLEAN : SubmitSend(1, ok)
    \/ SubmitWait(1)
    \/ \E t \in ShutdownThreads : Shutdown(t)
    \/ \E t \in ShutdownThreads : ShutdownCleanup(t)

SpecPartition == Init /\ [][NextPartition]_vars

\* _cleanup has not emptied the lists
BeforeCleanup == wake_pipe # Closed

\* C38: until shutdown has cleaned up, every connection that addServer
\* created is once in the active list or once in the inactive list, and
\* not in both; the lists hold nothing else.
C38_PoolPartition ==
    BeforeCleanup =>
        /\ \A c \in pooled :
                Count(active_connections, c) + Count(inactive_connections, c) = 1
        /\ SetOf(active_connections) \cup SetOf(inactive_connections)
                \subseteq pooled

\* Both servers were added and connected; one is active, the other was
\* marked lost after its connect and is in the inactive list, before any
\* cleanup.
C38_Witness ==
    /\ pooled = Conns
    /\ BeforeCleanup
    /\ \E c \in Conns :
        /\ Contains(inactive_connections, c)
        /\ lost_call.conn = c
        /\ n_connect[c] > 0
        /\ \E d \in Conns \ {c} : Contains(active_connections, d)
\* ================================================ the worker's accounting
\* The getJob calls that have incremented waiting_for_jobs (they found the
\* Worker running) and have taken no item from the queue
Uncounted ==
    {t \in GetJobThreads :
        /\ th[t].n = 0
        /\ \/ th[t].pc = "blocked"
           \/ th[t].pc = "done" /\ th[t].result = "error"}

\* C39: with job_lock free, waiting_for_jobs plus the number of queued items
\* (jobs and None sentinels) is the number of getJob calls that have
\* incremented the counter and not yet taken an item.
C39_WorkerAccounting ==
    job_lock = None =>
        waiting_for_jobs + Len(job_queue) = Cardinality(Uncounted)
\* ============================================ the states of active connections
\* C40: in a Worker every connection of the active list is connected and in
\* one of the states IDLE, GRAB_WAIT and SLEEP; none is in state INIT.
C40_ActiveConnectionsInitialised ==
    \A c \in SetOf(active_connections) :
        /\ connected[c]
        /\ state[c] \in {"IDLE", "GRAB_WAIT", "SLEEP"}

\* A connection that was active and lost has been reset by the disconnect
\* of reconnect: it is in state INIT, connected again, in the inactive list
\* and waits for its on-connect hook, while the other server is active and
\* was asked for a job.
C40_Witness ==
    \E c \in Conns :
        /\ Contains(inactive_connections, c)
        /\ n_connect[c] = 2
        /\ rc_pc = "onconnect" /\ rc_conn = c
        /\ state[c] = "INIT"
        /\ \E d \in Conns \ {c} :
            /\ Contains(active_connections, d)
            /\ state[d] = "GRAB_WAIT"

====
